---- MODULE Spec2Model ----
(***************************************************************************)
(* Model of the trakr backend's bulk mutations (handle_alarms,             *)
(* transfer_tags), their request validators, its paginated list and        *)
(* get-by-id queries, the create, update and delete of single rows, and    *)
(* get_conn, running as database sessions against one PostgreSQL database. *)
(*                                                                         *)
(* Database semantics assumed (psycopg2 on PostgreSQL, READ COMMITTED):    *)
(*  - a SELECT reads the committed rows;                                   *)
(*  - an UPDATE locks the row it changes until its transaction ends; an    *)
(*    UPDATE of a row locked by another transaction waits;                 *)
(*  - a cycle of waiting transactions is a deadlock: the statement of one  *)
(*    of them raises; a transaction in which a statement raised is         *)
(*    aborted: every later statement raises, and conn.commit() rolls back  *)
(*    without raising;                                                     *)
(*  - the tables have the columns the queries name.                        *)
(***************************************************************************)
EXTENDS Integers, Sequences, FiniteSets, TLC

\* ---- bounds ----
\* The longest id list of a request, and the last reading of the clock.
MaxBatch == 2
MaxClock == 1
\* The largest page number and page size of a list request.
MaxPage == 2
MaxPageSize == 2
\* The rows the create calls may insert, over all tables.
MaxCreated == 2
\* The connections that may be opened, and the highest count kept of the
\* releases of one operation's connection.
MaxConnections == 3
MaxReleases == 2

\* The database sessions, the primary keys that rows may have, and the
\* organization ids a request may name (no organization has the last one).
Sessions == {1, 2}
AlarmIds == {1, 2}
TagIds == {1, 2}
OrgIds == {1, 2}
RequestOrgIds == {1, 2, 3}
OrgNames == {"acme", "beta"}
AccountIds == {1, 2}
RouteIds == {1, 2}
ObjectIds == {1, 2}
Times == {1, 2}

\* ---- program constants ----
HTTP_200_OK == 200
HTTP_201_CREATED == 201
HTTP_204_NO_CONTENT == 204
HTTP_400_BAD_REQUEST == 400
HTTP_404_NOT_FOUND == 404
HTTP_422_UNPROCESSABLE_ENTITY == 422
HTTP_500_INTERNAL_SERVER_ERROR == 500
MaxAlarmIds == 100
MaxTagIds == 100
MaxModelLen == 100
PageSizeLimit == 100
minconn == 1


\* Text the service matches by pattern (imei, account): a sequence of
\* characters. The device identifiers and account names of the stored rows:
Imei1 == <<"a", "x">>
Imei2 == <<"B", "x">>
Texts == {Imei1, Imei2}

\* Optional[...] values: None, or a one-element tuple holding the value.
None == <<>>
Some(x) == <<x>>

Range(f) == {f[x] : x \in DOMAIN f}

\* All sequences over S of length 0..n.
SeqsUpTo(S, n) == UNION {[1..k -> S] : k \in 0..n}

\* A table is a function from the primary keys of its rows to the rows.
Tables(Ids, Rows) == UNION {[S -> Rows] : S \in SUBSET Ids}

\* [x for x in seq if x not in S]
NotIn(seq, S) == SelectSeq(seq, LAMBDA x : x \notin S)

Restrict(f, S) == [x \in S |-> f[x]]

VARIABLES
    Alarms,          \* committed rows of table Alarms, by sn
    Tags,            \* committed rows of table Tags, by sn
    Organizations,   \* committed rows of table Organizations, by id
    Accounts,        \* committed rows of table Accounts, by sn
    Route_List,      \* committed rows of table Route_List, by sn
    Tracking_Objects,\* committed rows of table Tracking_Objects, by sn
    sequences,       \* per table with a SERIAL key: the last value it gave
    connections,     \* the pool, the connections open, and who holds them
    now,             \* datetime.utcnow()
    call,            \* per session: the call in progress and its locals
    txn,             \* per session: the open transaction of its connection
    last             \* the call that ended in the last step, if one did: its
                     \* session, request, response, and what it did

vars == <<Alarms, Tags, Organizations, Accounts, Route_List, Tracking_Objects,
          sequences, connections, now, call, txn, last>>

\* The tables no bulk mutation reads or writes.
listed_only == <<Accounts, Route_List, Tracking_Objects, sequences, connections>>

db == <<Alarms, Tags, Organizations, listed_only>>

\* The connections before any is asked for: pooled says whether get_pool made
\* the pool (SimpleConnectionPool opens minconn = 1 connection at once) or
\* get_conn connects directly; idle and used are the pool's lists, open the
\* direct connections not closed, opened the number of connections made so
\* far; generator[s] is the connection the generator that session s made holds
\* while it is suspended at its yield; acquired[s] is the connection of the
\* operation of s in progress or just ended, and releases[s] the number of
\* times it went back to the pool or was closed while the operation ran.
NoConnections(pooled) ==
    [pooled |-> pooled,
     idle |-> IF pooled THEN {1} ELSE {},
     used |-> {},
     open |-> {},
     opened |-> IF pooled THEN 1 ELSE 0,
     generator |-> [s \in Sessions |-> None],
     acquired |-> [s \in Sessions |-> None],
     releases |-> [s \in Sessions |-> 0]]

\* The sequences when each has given n values.
SequencesAt(n) == [Organizations |-> n, Accounts |-> n, Tracking_Objects |-> n]

\* ---- rows ----
AlarmRow(org, imei, warn_type, time) ==
    [organization |-> org, imei |-> imei, warn_type |-> warn_type, time |-> time,
     is_handled |-> FALSE, handled_by |-> None, handled_at |-> None,
     handle_reason |-> None]

TagRow(org, imei) == [organization |-> org, imei |-> imei]

OrganizationRow(name) == [organization_name |-> name]

AccountRow(org, account) == [organization |-> org, account |-> account]

RouteRow(terminal_id, tracking_time) ==
    [terminal_id |-> terminal_id, tracking_time |-> tracking_time]

TrackingObjectRow(mac, name) == [mac |-> mac, name |-> name]

\* ---- request validation (pydantic validators) ----
validate_alarm_ids(v) ==
    /\ Len(v) # 0
    /\ ~(Len(v) > MaxAlarmIds)
    /\ Cardinality(Range(v)) = Len(v)

validate_tag_ids(v) ==
    /\ Len(v) # 0
    /\ ~(Len(v) > MaxTagIds)

\* ---- a session ----
\* The user of the access token a session sends (the token's "sub").
UserOf(s) == s

\* The optional reason its requests carry: the first session's client gives
\* none, the others give one.
ReasonOf(s) == IF s = 1 THEN None ELSE Some("checked")

\* op, ids, reason, new_organization_id: the request; target_org, pos (position
\* of the update loop in ids), count (handled_count, transferred_count), failed
\* (failed_alarm_ids, failed_tag_ids): the locals; statements, outcome: the
\* statements executed so far and how the UPDATE of each id ended.
NoCall == [op |-> "none", ids |-> <<>>, reason |-> None,
           new_organization_id |-> None, target_org |-> None, pos |-> 1,
           count |-> 0, failed |-> <<>>, statements |-> 0, outcome |-> <<>>]

NoTxn == [table |-> "none", writes |-> <<>>, aborted |-> FALSE]

NoLast == [session |-> None]

\* No response is on its way to a caller.
Quiet == last = NoLast

\* Sessions whose open transaction holds the row lock of row sn of a table.
LockHolders(table, sn) ==
    {t \in Sessions : txn[t].table = table /\ sn \in DOMAIN txn[t].writes}

\* Session s is in the update loop, at an id.
AtItem(s, op) == Quiet /\ call[s].op = op /\ call[s].pos <= Len(call[s].ids)
Item(s) == call[s].ids[call[s].pos]

\* Session s has issued an UPDATE that waits for the row lock held by t.
WaitsFor(s, t) ==
    /\ call[s].op # "none"
    /\ call[s].pos <= Len(call[s].ids)
    /\ ~txn[s].aborted
    /\ t # s
    /\ t \in LockHolders(txn[s].table, Item(s))

Blocked(s) == \E t \in Sessions : WaitsFor(s, t)

RECURSIVE WaitsForWithin(_, _, _)
WaitsForWithin(s, t, n) ==
    \/ WaitsFor(s, t)
    \/ /\ n > 1
       /\ \E u \in Sessions : WaitsFor(s, u) /\ WaitsForWithin(u, t, n - 1)

\* s waits in a cycle of waiting transactions.
Deadlocked(s) == WaitsForWithin(s, s, Cardinality(Sessions))

\* ---- how a call begins and ends ----
\* The response and the record of a call of session s that ended.
Ended(s, c, status, detail, ids, persisted) ==
    [session |-> Some(s), op |-> c.op, request_ids |-> c.ids, reason |-> c.reason,
     new_organization_id |-> c.new_organization_id,
     status |-> status, detail |-> detail, ids |-> ids,
     count |-> c.count, failed_count |-> Len(c.failed), failed_ids |-> c.failed,
     statements |-> c.statements, outcome |-> c.outcome, persisted |-> persisted]

\* An HTTPException leaves the with-block before any UPDATE: the connection
\* rolls back and goes back to the pool.
Raise(s, c, status, detail, ids, statements) ==
    /\ last' = Ended(s, [c EXCEPT !.statements = statements], status, detail, ids, {})
    /\ UNCHANGED <<db, now, call, txn>>

\* Request validation rejects the body before the service function runs.
RejectInvalid(s, c) ==
    Raise(s, c, HTTP_422_UNPROCESSABLE_ENTITY, "validation error", <<>>, 0)

\* The checks passed: enter the update loop.
EnterLoop(s, c, table, statements) ==
    /\ call' = [call EXCEPT ![s] = [c EXCEPT !.statements = statements]]
    /\ txn' = [txn EXCEPT ![s] = [NoTxn EXCEPT !.table = table]]
    /\ last' = NoLast
    /\ UNCHANGED <<db, now>>

\* The loop body with handled_count += 1 moved out of the rowcount test.
NextItem_CountsEvery(s, outcome, ok) ==
    /\ call' = [call EXCEPT ![s].pos = @ + 1,
                            ![s].count = @ + 1,
                            ![s].failed = IF ok THEN @ ELSE Append(@, Item(s)),
                            ![s].statements = @ + 1,
                            ![s].outcome = Append(@, outcome)]
    /\ last' = NoLast
    /\ UNCHANGED <<db, now>>

\* One pass of the loop body has ended for the current id.
NextItem(s, outcome, ok) ==
    /\ call' = [call EXCEPT ![s].pos = @ + 1,
                            ![s].count = IF ok THEN @ + 1 ELSE @,
                            ![s].failed = IF ok THEN @ ELSE Append(@, Item(s)),
                            ![s].statements = @ + 1,
                            ![s].outcome = Append(@, outcome)]
    /\ last' = NoLast
    /\ UNCHANGED <<db, now>>

\* cur.execute raises: a deadlock was detected, or the transaction is already
\* aborted. The except clause records the id as failed and the loop goes on.
update_raises(s, op) ==
    /\ AtItem(s, op)
    /\ txn[s].aborted \/ Deadlocked(s)
    /\ txn' = [txn EXCEPT ![s].aborted = TRUE]
    /\ NextItem(s, "raised", FALSE)

\* The rows of a table after conn.commit() of a transaction.
Committed(table, writes, aborted) ==
    IF aborted THEN table
    ELSE [sn \in DOMAIN table |-> IF sn \in DOMAIN writes THEN writes[sn] ELSE table[sn]]

\* The ids whose UPDATE conn.commit() made durable.
Persisted(t) == IF t.aborted THEN {} ELSE DOMAIN t.writes

\* ---- handle_alarms ----
\* The existence check with > for !=.
AlarmsNotAllFound_Greater(existing_alarms, alarm_ids) ==
    Cardinality(existing_alarms) > Len(alarm_ids)

\* The organization check with > 2 for > 1.
MixedOrganizations_MoreThanTwo(organizations) == Cardinality(organizations) > 2

\* The handled check that rejects only a batch whose alarms are all handled.
AlreadyHandled_OnlyIfAll(existing_alarms) ==
    IF \A sn \in existing_alarms : Alarms[sn].is_handled
       THEN existing_alarms ELSE {}

\* The UPDATE with SET is_handled = NOT is_handled.
HandledRow_Toggles(row, handled_by, handled_at, reason) ==
    [row EXCEPT !.is_handled = ~row.is_handled, !.handled_by = Some(handled_by),
                !.handled_at = Some(handled_at), !.handle_reason = reason]

\* The UPDATE with COALESCE(handled_by, ...): the first handler's values stay.
HandledRow_KeepsFirst(row, handled_by, handled_at, reason) ==
    IF row.is_handled THEN row
    ELSE [row EXCEPT !.is_handled = TRUE, !.handled_by = Some(handled_by),
                     !.handled_at = Some(handled_at), !.handle_reason = reason]

\* len(existing_alarms) != len(alarm_handle.alarm_ids)
AlarmsNotAllFound(existing_alarms, alarm_ids) ==
    Cardinality(existing_alarms) # Len(alarm_ids)

\* len(organizations) > 1
MixedOrganizations(organizations) == Cardinality(organizations) > 1

\* [alarm[0] for alarm in existing_alarms if alarm[2]]
AlreadyHandled(existing_alarms) == {sn \in existing_alarms : Alarms[sn].is_handled}

\* UPDATE Alarms SET is_handled = TRUE, handled_by, handled_at, handle_reason
HandledRow(row, handled_by, handled_at, reason) ==
    [row EXCEPT !.is_handled = TRUE, !.handled_by = Some(handled_by),
                !.handled_at = Some(handled_at), !.handle_reason = reason]

\* handle_alarms up to the update loop: the SELECT and the three checks.
handle_alarms(s, alarm_ids) ==
    LET c == [NoCall EXCEPT !.op = "handle_alarms", !.ids = alarm_ids,
                            !.reason = ReasonOf(s)]
        existing_alarms == Range(alarm_ids) \cap DOMAIN Alarms
        missing_ids == NotIn(alarm_ids, existing_alarms)
        organizations == {Alarms[sn].organization : sn \in existing_alarms}
        already_handled == AlreadyHandled(existing_alarms)
    IN
    /\ Quiet
    /\ call[s].op = "none"
    /\ IF ~validate_alarm_ids(alarm_ids)
          THEN RejectInvalid(s, c)
       ELSE IF AlarmsNotAllFound(existing_alarms, alarm_ids)
          THEN Raise(s, c, HTTP_404_NOT_FOUND, "Alarms not found", missing_ids, 1)
       ELSE IF MixedOrganizations(organizations)
          THEN Raise(s, c, HTTP_400_BAD_REQUEST,
                     "All alarms must belong to the same organization", <<>>, 1)
       ELSE IF already_handled # {}
          THEN Raise(s, c, HTTP_400_BAD_REQUEST, "Alarms already handled",
                     already_handled, 1)
       ELSE EnterLoop(s, c, "Alarms", 1)

\* cur.execute(UPDATE Alarms ... WHERE sn = alarm_id) returns.
handle_alarms_update(s) ==
    /\ AtItem(s, "handle_alarms")
    /\ ~txn[s].aborted
    /\ ~Blocked(s)
    /\ IF Item(s) \in DOMAIN Alarms
          THEN /\ txn' = [txn EXCEPT ![s].writes = (Item(s) :> HandledRow(
                        Alarms[Item(s)], UserOf(s), now, call[s].reason)) @@ @]
               /\ NextItem(s, "applied", TRUE)
          ELSE /\ txn' = txn
               /\ NextItem(s, "no row", FALSE)

handle_alarms_update_raises(s) == update_raises(s, "handle_alarms")

\* conn.commit() and the return of the result.
handle_alarms_commit(s) ==
    /\ Quiet
    /\ call[s].op = "handle_alarms"
    /\ call[s].pos > Len(call[s].ids)
    /\ Alarms' = Committed(Alarms, txn[s].writes, txn[s].aborted)
    /\ txn' = [txn EXCEPT ![s] = NoTxn]
    /\ call' = [call EXCEPT ![s] = NoCall]
    /\ last' = Ended(s, call[s], HTTP_200_OK, "Alarm handling completed", <<>>,
                     Persisted(txn[s]))
    /\ UNCHANGED <<Tags, Organizations, listed_only, now>>

\* ---- transfer_tags ----
\* The existence check with > for !=.
TagsNotAllFound_Greater(existing_tags, tag_ids) ==
    Cardinality(existing_tags) > Len(tag_ids)

\* len(existing_tags) != len(tag_transfer.tag_ids)
TagsNotAllFound(existing_tags, tag_ids) == Cardinality(existing_tags) # Len(tag_ids)

\* UPDATE Tags SET organization = target_org[0]
TransferredRow(row, organization) == [row EXCEPT !.organization = organization]

\* transfer_tags with the SELECT of the tags and its check moved before the
\* SELECT of the target organization.
transfer_tags_TagsFirst(s, tag_ids, new_organization_id) ==
    LET c == [NoCall EXCEPT !.op = "transfer_tags", !.ids = tag_ids,
                  !.new_organization_id = Some(new_organization_id),
                  !.reason = ReasonOf(s)]
        existing_tags == Range(tag_ids) \cap DOMAIN Tags
        missing_ids == NotIn(tag_ids, existing_tags)
    IN
    /\ Quiet
    /\ call[s].op = "none"
    /\ IF ~validate_tag_ids(tag_ids)
          THEN RejectInvalid(s, c)
       ELSE IF TagsNotAllFound(existing_tags, tag_ids)
          THEN Raise(s, c, HTTP_404_NOT_FOUND, "Tags not found", missing_ids, 1)
       ELSE IF new_organization_id \notin DOMAIN Organizations
          THEN Raise(s, c, HTTP_404_NOT_FOUND, "Target organization not found",
                     <<>>, 2)
       ELSE EnterLoop(s, [c EXCEPT !.target_org =
                Some(Organizations[new_organization_id].organization_name)],
                "Tags", 2)

\* transfer_tags up to the update loop: the two SELECTs and their checks.
transfer_tags(s, tag_ids, new_organization_id) ==
    LET c == [NoCall EXCEPT !.op = "transfer_tags", !.ids = tag_ids,
                  !.new_organization_id = Some(new_organization_id),
                  !.reason = ReasonOf(s)]
        existing_tags == Range(tag_ids) \cap DOMAIN Tags
        missing_ids == NotIn(tag_ids, existing_tags)
    IN
    /\ Quiet
    /\ call[s].op = "none"
    /\ IF ~validate_tag_ids(tag_ids)
          THEN RejectInvalid(s, c)
       ELSE IF new_organization_id \notin DOMAIN Organizations
          THEN Raise(s, c, HTTP_404_NOT_FOUND, "Target organization not found",
                     <<>>, 1)
       ELSE IF TagsNotAllFound(existing_tags, tag_ids)
          THEN Raise(s, c, HTTP_404_NOT_FOUND, "Tags not found", missing_ids, 2)
       ELSE EnterLoop(s, [c EXCEPT !.target_org =
                Some(Organizations[new_organization_id].organization_name)],
                "Tags", 2)

\* cur.execute(UPDATE Tags ... WHERE sn = tag_id) returns.
transfer_tags_update(s) ==
    /\ AtItem(s, "transfer_tags")
    /\ ~txn[s].aborted
    /\ ~Blocked(s)
    /\ IF Item(s) \in DOMAIN Tags
          THEN /\ txn' = [txn EXCEPT ![s].writes = (Item(s) :> TransferredRow(
                        Tags[Item(s)], call[s].target_org[1])) @@ @]
               /\ NextItem(s, "applied", TRUE)
          ELSE /\ txn' = txn
               /\ NextItem(s, "no row", FALSE)

transfer_tags_update_raises(s) == update_raises(s, "transfer_tags")

\* conn.commit() and the return of the result.
transfer_tags_commit(s) ==
    /\ Quiet
    /\ call[s].op = "transfer_tags"
    /\ call[s].pos > Len(call[s].ids)
    /\ Tags' = Committed(Tags, txn[s].writes, txn[s].aborted)
    /\ txn' = [txn EXCEPT ![s] = NoTxn]
    /\ call' = [call EXCEPT ![s] = NoCall]
    /\ last' = Ended(s, call[s], HTTP_200_OK, "Tag transfer completed", <<>>,
                     Persisted(txn[s]))
    /\ UNCHANGED <<Alarms, Organizations, listed_only, now>>

\* The response of the call that ended reaches its caller.
Deliver ==
    /\ ~Quiet
    /\ last' = NoLast
    /\ UNCHANGED <<db, now, call, txn>>

\* ---- outside the service ----
\* The reading of the clock is in a row, written or about to be committed.
Stamped(t) ==
    \/ \E sn \in DOMAIN Alarms : Alarms[sn].handled_at = Some(t)
    \/ \E s \in Sessions : \E sn \in DOMAIN txn[s].writes :
          txn[s].table = "Alarms" /\ txn[s].writes[sn].handled_at = Some(t)

\* Time passes. (The clock is read only to stamp handled_at: a reading that
\* was never stamped need not be told from the next one.)
Tick ==
    /\ Quiet
    /\ Stamped(now)
    /\ now < MaxClock
    /\ now' = now + 1
    /\ last' = NoLast
    /\ UNCHANGED <<db, call, txn>>

\* Another writer of the database deletes a row (it waits for the row's lock).
DeleteAlarm(sn) ==
    /\ Quiet
    /\ sn \in DOMAIN Alarms
    /\ LockHolders("Alarms", sn) = {}
    /\ Alarms' = Restrict(Alarms, DOMAIN Alarms \ {sn})
    /\ last' = NoLast
    /\ UNCHANGED <<Tags, Organizations, listed_only, now, call, txn>>

DeleteTag(sn) ==
    /\ Quiet
    /\ sn \in DOMAIN Tags
    /\ LockHolders("Tags", sn) = {}
    /\ Tags' = Restrict(Tags, DOMAIN Tags \ {sn})
    /\ last' = NoLast
    /\ UNCHANGED <<Alarms, Organizations, listed_only, now, call, txn>>

\* ---- text, as the list queries compare it ----
\* ILIKE compares without regard to case.
Lower(ch) == CASE ch = "A" -> "a" [] ch = "B" -> "b" [] OTHER -> ch
LowerText(t) == [i \in 1..Len(t) |-> Lower(t[i])]

\* str.strip()
RECURSIVE LStrip(_)
LStrip(t) == IF t # <<>> /\ Head(t) = " " THEN LStrip(Tail(t)) ELSE t
Reverse(t) == [i \in 1..Len(t) |-> t[Len(t) + 1 - i]]
Strip(t) == Reverse(LStrip(Reverse(LStrip(t))))

Contains(t, p) == \E i \in 0..(Len(t) - Len(p)) : SubSeq(t, i + 1, i + Len(p)) = p

\* column ILIKE '%' || pattern || '%' (the patterns of the model hold no
\* wildcard of their own)
ILike(t, pattern) == Contains(LowerText(t), LowerText(pattern))

\* The order of text under ORDER BY: by character, upper case first.
CharRank(ch) == CASE ch = " " -> 0 [] ch = "A" -> 1 [] ch = "B" -> 2
                  [] ch = "a" -> 3 [] ch = "b" -> 4 [] OTHER -> 5
RECURSIVE TextLess(_, _)
TextLess(a, b) ==
    IF b = <<>> THEN FALSE
    ELSE IF a = <<>> THEN TRUE
    ELSE IF CharRank(Head(a)) # CharRank(Head(b))
       THEN CharRank(Head(a)) < CharRank(Head(b))
    ELSE TextLess(Tail(a), Tail(b))

\* Python's truth value of an optional text, and of an optional name.
TruthyText(v) == v # None /\ v[1] # <<>>
TruthyName(v) == v # None /\ v[1] # ""

\* row[i] or "Unknown"
Unknown == <<"U", "n", "k", "n", "o", "w", "n">>
OrUnknown(v) == IF TruthyText(v) THEN v[1] ELSE Unknown

\* ---- result sets ----
\* The rows a LEFT JOIN adds to one row: the matching ones, or one of NULLs.
OrNull(S) == IF S = {} THEN {None} ELSE {Some(x) : x \in S}

\* The orders SQL may return the rows S in under ORDER BY: rank[x] is the
\* number of rows that sort before x; rows of equal rank come in any order.
RECURSIVE Orderings(_, _)
Orderings(S, rank) ==
    IF S = {} THEN {<<>>}
    ELSE UNION {{<<x>> \o rest : rest \in Orderings(S \ {x}, rank)} :
                  x \in {y \in S : \A z \in S : rank[y] <= rank[z]}}

\* offset = (page - 1) * page_size
Offset(page, page_size) == (page - 1) * page_size

\* LIMIT page_size OFFSET offset
Window(rows, page_size, offset) ==
    SubSeq(rows, offset + 1,
           IF offset + page_size < Len(rows) THEN offset + page_size ELSE Len(rows))

\* Query(ge=1), Query(ge=1, le=100)
ValidWindow(page, page_size) ==
    /\ page >= 1
    /\ page_size >= 1
    /\ page_size <= PageSizeLimit

\* validate_time_range of AlarmFilter and RouteFilter
validate_time_range(start_time, end_time) ==
    ~(end_time # None /\ start_time # None /\ end_time[1] <= start_time[1])

\* validate_model of TagFilter: the filter, stripped
validate_model(v) == IF TruthyText(v) THEN Some(Strip(v[1])) ELSE v
ModelTooLong(v) == v # None /\ Len(Strip(v[1])) > MaxModelLen

\* The result of a service function that raised.
Failed(status, detail) ==
    [status |-> status, detail |-> detail, total_count |-> None, rows |-> <<>>]

\* ---- get_alarms_with_filters ----
AlarmFilter(organization, warn_type, start_time, end_time) ==
    [organization |-> organization, warn_type |-> warn_type,
     start_time |-> start_time, end_time |-> end_time]

\* WHERE a.organization = %s [AND a.warn_type = %s] [AND a.time >= %s]
\* [AND a.time <= %s]
AlarmMatches(a, f) ==
    /\ a.organization = f.organization
    /\ f.warn_type # None => a.warn_type = f.warn_type[1]
    /\ f.start_time # None => a.time >= f.start_time[1]
    /\ f.end_time # None => a.time <= f.end_time[1]

\* SELECT COUNT(*) FROM Alarms a WHERE ...
AlarmCount(f) == Cardinality({sn \in DOMAIN Alarms : AlarmMatches(Alarms[sn], f)})

\* FROM Alarms a LEFT JOIN Tags t ON a.imei = t.imei
\*               LEFT JOIN Tracking_Objects to ON t.imei = to.mac WHERE ...
AlarmJoin(f) ==
    {j \in [a : DOMAIN Alarms, t : OrNull(DOMAIN Tags),
            to : OrNull(DOMAIN Tracking_Objects)] :
        /\ AlarmMatches(Alarms[j.a], f)
        /\ j.t \in OrNull({sn \in DOMAIN Tags : Tags[sn].imei = Alarms[j.a].imei})
        /\ j.to \in (IF j.t = None THEN {None}
                     ELSE OrNull({sn \in DOMAIN Tracking_Objects :
                             Tracking_Objects[sn].mac = Tags[j.t[1]].imei}))}

\* Alarm(sn=row[0], ..., imei=row[2] or "Unknown",
\*       tracking_object=row[3] or "Unknown", ...)
AlarmItem(j) ==
    [sn |-> j.a, organization |-> Alarms[j.a].organization,
     imei |-> OrUnknown(IF j.t = None THEN None ELSE Some(Tags[j.t[1]].imei)),
     tracking_object |->
        OrUnknown(IF j.to = None THEN None
                  ELSE Some(Tracking_Objects[j.to[1]].name)),
     warn_type |-> Alarms[j.a].warn_type, time |-> Alarms[j.a].time,
     is_handled |-> Alarms[j.a].is_handled,
     handled_by |-> Alarms[j.a].handled_by,
     handled_at |-> Alarms[j.a].handled_at,
     handle_reason |-> Alarms[j.a].handle_reason]

\* ORDER BY a.time DESC
AlarmOrders(f) ==
    LET S == AlarmJoin(f)
    IN Orderings(S, [j \in S |->
           Cardinality({k \in S : Alarms[k.a].time > Alarms[j.a].time})])

\* return {"alarms": ..., "pagination": {page, page_size, total_records}}
AlarmListResult(alarms, total_count, page, page_size) ==
    [status |-> HTTP_200_OK, detail |-> "", total_count |-> total_count,
     rows |-> alarms]

\* The results the function can give. The joins name Tracking_Objects "to", a
\* reserved word of PostgreSQL: where the server refuses it, the second query
\* raises and the function answers 500.
get_alarms_with_filters(f, page, page_size) ==
    {Failed(HTTP_500_INTERNAL_SERVER_ERROR, "Failed to fetch alarms")}
    \cup {AlarmListResult(
              [i \in 1..Len(w) |-> AlarmItem(w[i])], AlarmCount(f), page, page_size) :
          w \in {Window(o, page_size, Offset(page, page_size)) : o \in AlarmOrders(f)}}

\* ---- get_routes_with_filters ----
RouteFilter(organization, start_time, end_time) ==
    [organization |-> organization, start_time |-> start_time,
     end_time |-> end_time]

\* WHERE o.organization_name = %s [AND r.tracking_time >= %s]
\* [AND r.tracking_time <= %s]
RouteMatches(r, f) ==
    /\ f.start_time # None => r.tracking_time >= f.start_time[1]
    /\ f.end_time # None => r.tracking_time <= f.end_time[1]

\* FROM Route_List r LEFT JOIN Tags t ON r.terminal_id = t.imei
\*   LEFT JOIN Organizations o ON t.organization = o.organization_name
\* WHERE o.organization_name = %s ...: the WHERE clause keeps the rows that
\* have a tag and an organization.
RouteCountJoin(f) ==
    {j \in [r : DOMAIN Route_List, t : DOMAIN Tags, o : DOMAIN Organizations] :
        /\ RouteMatches(Route_List[j.r], f)
        /\ Tags[j.t].imei = Route_List[j.r].terminal_id
        /\ Organizations[j.o].organization_name = Tags[j.t].organization
        /\ Organizations[j.o].organization_name = f.organization}

\* SELECT COUNT(*) ...
RouteCount(f) == Cardinality(RouteCountJoin(f))

\* The same with LEFT JOIN Tracking_Objects to ON t.imei = to.mac
RouteJoin(f) ==
    {j \in [r : DOMAIN Route_List, t : DOMAIN Tags, o : DOMAIN Organizations,
            to : OrNull(DOMAIN Tracking_Objects)] :
        /\ [r |-> j.r, t |-> j.t, o |-> j.o] \in RouteCountJoin(f)
        /\ j.to \in OrNull({sn \in DOMAIN Tracking_Objects :
                              Tracking_Objects[sn].mac = Tags[j.t].imei})}

\* ORDER BY r.tracking_time DESC
RouteOrders(f) ==
    LET S == RouteJoin(f)
    IN Orderings(S, [j \in S |-> Cardinality({k \in S :
           Route_List[k.r].tracking_time > Route_List[j.r].tracking_time})])

\* Route(sn=row[0], terminal_id=row[1] or "Unknown",
\*       tracking_object=row[2] or "Unknown", ...), where row[0] is
\* ROW_NUMBER() OVER (ORDER BY r.tracking_time DESC)
RouteItem(j, sn) ==
    [sn |-> sn, terminal_id |-> OrUnknown(Some(Tags[j.t].imei)),
     tracking_object |->
        OrUnknown(IF j.to = None THEN None
                  ELSE Some(Tracking_Objects[j.to[1]].name)),
     tracking_time |-> Route_List[j.r].tracking_time]

\* return {"routes": ..., "pagination": {...}, "message": ...}
RouteListResult(routes, total_count, page, page_size) ==
    [status |-> HTTP_200_OK,
     detail |-> IF total_count = 0 THEN "No data available" ELSE "",
     total_count |-> total_count, rows |-> routes]

\* The position of x in a sequence that holds it once.
IndexOf(seq, x) == CHOOSE i \in 1..Len(seq) : seq[i] = x

\* The results the function can give (the alias "to": see
\* get_alarms_with_filters). The window function numbers the rows in one
\* order of the result, ORDER BY returns them in one.
get_routes_with_filters(f, page, page_size) ==
    {Failed(HTTP_500_INTERNAL_SERVER_ERROR, "Failed to fetch routes")}
    \cup {RouteListResult(
              [i \in 1..Len(p[2]) |-> RouteItem(p[2][i], IndexOf(p[1], p[2][i]))],
              RouteCount(f), page, page_size) :
          p \in {<<numbered, Window(o, page_size, Offset(page, page_size))>> :
                   numbered \in RouteOrders(f), o \in RouteOrders(f)}}

\* ---- get_tags_with_filters ----
TagFilter(organization, model) == [organization |-> organization, model |-> model]

\* FROM Tags t JOIN Organizations o ON t.organization = o.organization_name
\* WHERE 1=1 [AND o.organization_name = %s] [AND t.imei ILIKE %s]
TagJoin(f) ==
    {j \in [t : DOMAIN Tags, o : DOMAIN Organizations] :
        /\ Tags[j.t].organization = Organizations[j.o].organization_name
        /\ TruthyName(f.organization)
           => Organizations[j.o].organization_name = f.organization[1]
        /\ TruthyText(f.model) => ILike(Tags[j.t].imei, f.model[1])}

\* SELECT COUNT(*) ...
TagCount(f) == Cardinality(TagJoin(f))

\* ORDER BY t.sn
TagOrders(f) ==
    LET S == TagJoin(f)
    IN Orderings(S, [j \in S |-> Cardinality({k \in S : k.t < j.t})])

\* Tag(sn=row[0], organization=row[1], imei=row[2], ...)
TagItem(j) ==
    [sn |-> j.t, organization |-> Organizations[j.o].organization_name,
     imei |-> Tags[j.t].imei]

\* The result with total_count = len(tags), the length of the page.
TagListResult_LengthOfPage(tags, total_count, page, page_size) ==
    [status |-> HTTP_200_OK, detail |-> "", total_count |-> Len(tags),
     rows |-> tags]

\* return {"tags": tags, "total_count": total_count, "page": ..., "page_size": ...}
TagListResult(tags, total_count, page, page_size) ==
    [status |-> HTTP_200_OK, detail |-> "", total_count |-> total_count,
     rows |-> tags]

get_tags_with_filters(f, page, page_size) ==
    {TagListResult(
         [i \in 1..Len(w) |-> TagItem(w[i])], TagCount(f), page, page_size) :
     w \in {Window(o, page_size, Offset(page, page_size)) : o \in TagOrders(f)}}

\* ---- get_accounts_by_organization ----
AccountFilter(organization, account_name) ==
    [organization |-> organization, account_name |-> account_name]

\* WHERE organization = %s [AND account ILIKE %s]
AccountMatches(a, f) ==
    /\ a.organization = f.organization
    /\ TruthyText(f.account_name) => ILike(a.account, f.account_name[1])

AccountRows(f) == {sn \in DOMAIN Accounts : AccountMatches(Accounts[sn], f)}

\* SELECT COUNT(*) FROM Accounts WHERE ...
AccountCount(f) == Cardinality(AccountRows(f))

\* ORDER BY account
AccountOrders(f) ==
    LET S == AccountRows(f)
    IN Orderings(S, [sn \in S |-> Cardinality({k \in S :
           TextLess(Accounts[k].account, Accounts[sn].account)})])

\* Account(sn=row[0], organization=row[1], account=row[2], ...)
AccountItem(sn) ==
    [sn |-> sn, organization |-> Accounts[sn].organization,
     account |-> Accounts[sn].account]

\* return {"accounts": accounts, "total_count": total_count, ...}
AccountListResult(accounts, total_count, page, page_size) ==
    [status |-> HTTP_200_OK, detail |-> "", total_count |-> total_count,
     rows |-> accounts]

get_accounts_by_organization(f, page, page_size) ==
    {AccountListResult(
         [i \in 1..Len(w) |-> AccountItem(w[i])], AccountCount(f), page, page_size) :
     w \in {Window(o, page_size, Offset(page, page_size)) : o \in AccountOrders(f)}}

\* ---- get_organizations_with_pagination ----
NoFilter == [none |-> TRUE]

\* SELECT COUNT(*) FROM Organizations
OrganizationCount == Cardinality(DOMAIN Organizations)

\* The order of the organization names under ORDER BY.
NameRank(name) == CASE name = "acme" -> 1 [] name = "beta" -> 2 [] OTHER -> 0

\* ORDER BY organization_name
OrganizationOrders ==
    LET S == DOMAIN Organizations
    IN Orderings(S, [id \in S |-> Cardinality({k \in S :
           NameRank(Organizations[k].organization_name)
             < NameRank(Organizations[id].organization_name)})])

\* Organization(id=row[0], organization_name=row[1], ...)
OrganizationItem(id) ==
    [id |-> id, organization_name |-> Organizations[id].organization_name]

\* return {"organizations": organizations, "total_count": total_count, ...}
OrganizationListResult(organizations, total_count, page, page_size) ==
    [status |-> HTTP_200_OK, detail |-> "", total_count |-> total_count,
     rows |-> organizations]

get_organizations_with_pagination(page, page_size) ==
    {OrganizationListResult(
         [i \in 1..Len(w) |-> OrganizationItem(w[i])], OrganizationCount,
         page, page_size) :
     w \in {Window(o, page_size, Offset(page, page_size)) : o \in OrganizationOrders}}

\* ---- the list endpoints ----
\* What a list request gives its caller: the request and the result.
Listed(op, f, page, page_size, result) ==
    [op |-> op, filter |-> f, page |-> page,
     page_size |-> page_size, status |-> result.status,
     detail |-> result.detail, total_count |-> result.total_count,
     rows |-> result.rows]

\* The ways a list request of these parameters can end: 422 where the query
\* parameters are out of range, 500 where the filter the endpoint builds is
\* refused (the exception is not an HTTPException), else as the service
\* function ends.
ListEnds(valid, filter_ok, results) ==
    IF ~valid
       THEN {Failed(HTTP_422_UNPROCESSABLE_ENTITY, "validation error")}
    ELSE IF ~filter_ok
       THEN {Failed(HTTP_500_INTERNAL_SERVER_ERROR, "Internal Server Error")}
    ELSE results

list_alarms_ends(f, page, page_size) ==
    ListEnds(ValidWindow(page, page_size),
             validate_time_range(f.start_time, f.end_time),
             get_alarms_with_filters(f, page, page_size))

list_routes_ends(f, page, page_size) ==
    ListEnds(ValidWindow(page, page_size) /\ f.start_time # None /\ f.end_time # None,
             validate_time_range(f.start_time, f.end_time),
             get_routes_with_filters(f, page, page_size))

list_tags_ends(f, page, page_size) ==
    ListEnds(ValidWindow(page, page_size), ~ModelTooLong(f.model),
             get_tags_with_filters(
                 [f EXCEPT !.model = validate_model(f.model)], page, page_size))

list_accounts_ends(f, page, page_size) ==
    ListEnds(ValidWindow(page, page_size), TRUE,
             get_accounts_by_organization(f, page, page_size))

list_organizations_ends(page, page_size) ==
    ListEnds(ValidWindow(page, page_size), TRUE,
             get_organizations_with_pagination(page, page_size))

\* A list request can be served: a session is free to serve it.
Ready == Quiet /\ {s \in Sessions : call[s].op = "none"} # {}

\* The request is served in one of the ways it can end.
Lists(op, f, page, page_size, ends) ==
    /\ \E result \in ends : last' = Listed(op, f, page, page_size, result)
    /\ UNCHANGED <<db, now, call, txn>>

list_alarms(f, page, page_size) ==
    Ready /\ Lists("list_alarms", f, page, page_size, list_alarms_ends(f, page, page_size))

list_routes(f, page, page_size) ==
    Ready /\ Lists("list_routes", f, page, page_size, list_routes_ends(f, page, page_size))

list_tags(f, page, page_size) ==
    Ready /\ Lists("list_tags", f, page, page_size, list_tags_ends(f, page, page_size))

list_accounts(f, page, page_size) ==
    Ready /\ Lists("list_accounts", f, page, page_size,
          list_accounts_ends(f, page, page_size))

list_organizations(page, page_size) ==
    Ready /\ Lists("list_organizations", NoFilter, page, page_size,
          list_organizations_ends(page, page_size))

\* ---- get_alarm_by_id, get_route_by_id ----
\* The result of a get-by-id function: the item it returns (None where it
\* returns None), or the error it raises.
GetResult(status, detail, item) ==
    [status |-> status, detail |-> detail, item |-> item]

\* FROM Alarms a LEFT JOIN Tags t ON a.imei = t.imei
\*               LEFT JOIN Tracking_Objects to ON t.imei = to.mac
\* WHERE a.sn = %s
AlarmByIdJoin(alarm_id) ==
    {j \in [a : DOMAIN Alarms \cap {alarm_id}, t : OrNull(DOMAIN Tags),
            to : OrNull(DOMAIN Tracking_Objects)] :
        /\ j.t \in OrNull({sn \in DOMAIN Tags : Tags[sn].imei = Alarms[j.a].imei})
        /\ j.to \in (IF j.t = None THEN {None}
                     ELSE OrNull({sn \in DOMAIN Tracking_Objects :
                             Tracking_Objects[sn].mac = Tags[j.t[1]].imei}))}

\* row = cur.fetchone(): any row of the result, there being no ORDER BY; the
\* alias "to" as in get_alarms_with_filters.
get_alarm_by_id(alarm_id) ==
    {GetResult(HTTP_500_INTERNAL_SERVER_ERROR, "Failed to fetch alarm", None)}
    \cup (IF AlarmByIdJoin(alarm_id) = {}
          THEN {GetResult(HTTP_200_OK, "", None)}
          ELSE {GetResult(HTTP_200_OK, "", Some(AlarmItem(j))) :
                  j \in AlarmByIdJoin(alarm_id)})

\* FROM Route_List r LEFT JOIN Tags t ON r.terminal_id = t.imei
\*                   LEFT JOIN Tracking_Objects to ON t.imei = to.mac
\* WHERE r.sn = %s
RouteByIdJoin(route_id) ==
    {j \in [r : DOMAIN Route_List \cap {route_id}, t : OrNull(DOMAIN Tags),
            to : OrNull(DOMAIN Tracking_Objects)] :
        /\ j.t \in OrNull({sn \in DOMAIN Tags :
                             Tags[sn].imei = Route_List[j.r].terminal_id})
        /\ j.to \in (IF j.t = None THEN {None}
                     ELSE OrNull({sn \in DOMAIN Tracking_Objects :
                             Tracking_Objects[sn].mac = Tags[j.t[1]].imei}))}

\* Route(sn=row[0], terminal_id=row[1] or "Unknown",
\*       tracking_object=row[2] or "Unknown", ...), where row[0] is
\* ROW_NUMBER() OVER (ORDER BY r.tracking_time DESC) among the rows selected
RouteByIdItem(j, sn) ==
    [sn |-> sn,
     terminal_id |-> OrUnknown(IF j.t = None THEN None ELSE Some(Tags[j.t[1]].imei)),
     tracking_object |->
        OrUnknown(IF j.to = None THEN None
                  ELSE Some(Tracking_Objects[j.to[1]].name)),
     tracking_time |-> Route_List[j.r].tracking_time]

get_route_by_id(route_id) ==
    {GetResult(HTTP_500_INTERNAL_SERVER_ERROR, "Failed to fetch route", None)}
    \cup (IF RouteByIdJoin(route_id) = {}
          THEN {GetResult(HTTP_200_OK, "", None)}
          ELSE {GetResult(HTTP_200_OK, "", Some(RouteByIdItem(j, sn))) :
                  j \in RouteByIdJoin(route_id),
                  sn \in 1..Cardinality(RouteByIdJoin(route_id))})

\* if not alarm: raise HTTPException(404, ...) ; return alarm
GetEnds(results, not_found) ==
    {IF r.status = HTTP_200_OK /\ r.item = None
        THEN GetResult(HTTP_404_NOT_FOUND, not_found, None)
        ELSE r : r \in results}

\* What a get-by-id request gives its caller: the request and the result.
Got(op, id, result) ==
    [op |-> op, id |-> id, status |-> result.status, detail |-> result.detail,
     item |-> result.item]

get_alarm(alarm_id) ==
    /\ Ready
    /\ \E result \in GetEnds(get_alarm_by_id(alarm_id), "Alarm not found") :
          last' = Got("get_alarm", alarm_id, result)
    /\ UNCHANGED <<db, now, call, txn>>

get_route(route_id) ==
    /\ Ready
    /\ \E result \in GetEnds(get_route_by_id(route_id), "Route not found") :
          last' = Got("get_route", route_id, result)
    /\ UNCHANGED <<db, now, call, txn>>

\* ---- the create and update bodies (pydantic validators) ----
MinOrganizationNameLen == 3
MaxOrganizationNameLen == 50
MaxTitleLen == 100
MaxProductTypeLen == 100
MaxAccountLen == 50
MaxObjectNameLen == 100

LowercaseLetters ==
    {"a", "b", "c", "d", "e", "f", "g", "h", "i", "j", "k", "l", "m", "n", "o",
     "p", "q", "r", "s", "t", "u", "v", "w", "x", "y", "z"}
UppercaseLetters ==
    {"A", "B", "C", "D", "E", "F", "G", "H", "I", "J", "K", "L", "M", "N", "O",
     "P", "Q", "R", "S", "T", "U", "V", "W", "X", "Y", "Z"}
Digits == {"0", "1", "2", "3", "4", "5", "6", "7", "8", "9"}
Whitespace == {" ", "\n"}

\* re.match(r'^[...]+$', text), for text that ends in no newline
AllIn(text, chars) == text # <<>> /\ \A i \in 1..Len(text) : text[i] \in chars

\* OrganizationCreate.validate_organization_name: the value is refused, or
\* replaced by v.strip()
organization_name_refused(v) ==
    \/ Strip(v) = <<>>
    \/ Len(Strip(v)) < MinOrganizationNameLen
    \/ Len(Strip(v)) > MaxOrganizationNameLen
    \/ ~AllIn(Strip(v), LowercaseLetters \cup Digits \cup {"_", "-"})
validate_organization_name(v) == Strip(v)

\* OrganizationCreate.validate_title
title_refused(v) == Strip(v) = <<>> \/ Len(Strip(v)) > MaxTitleLen
validate_title(v) == Strip(v)

\* OrganizationCreate.validate_product_type, of an optional value
product_type_refused(v) == v # None /\ Len(Strip(v[1])) > MaxProductTypeLen
validate_product_type(v) == IF v # None THEN Some(Strip(v[1])) ELSE v

\* AccountCreate.validate_account_name
account_name_refused(v) ==
    \/ Strip(v) = <<>>
    \/ Len(Strip(v)) > MaxAccountLen
    \/ ~AllIn(Strip(v), LowercaseLetters \cup UppercaseLetters \cup Digits
                          \cup {"_", "-"})
validate_account_name(v) == Strip(v)

\* PermissionLevel, AccountCreate.validate_permission
PermissionLevel == {"admin", "manager", "user", "viewer"}
permission_refused(v) == v \notin PermissionLevel

\* The parts of text between the dots.
RECURSIVE SplitDots(_)
SplitDots(text) ==
    IF \A i \in 1..Len(text) : text[i] # "."
       THEN <<text>>
    ELSE LET i == CHOOSE k \in 1..Len(text) :
                     text[k] = "." /\ \A m \in 1..(k - 1) : text[m] # "."
         IN <<SubSeq(text, 1, i - 1)>> \o SplitDots(SubSeq(text, i + 1, Len(text)))

\* 25[0-5]|2[0-4][0-9]|[01]?[0-9][0-9]?
IsOctet(t) ==
    /\ Len(t) \in 1..3
    /\ \A i \in 1..Len(t) : t[i] \in Digits
    /\ Len(t) = 3 =>
          \/ t[1] \in {"0", "1"}
          \/ t[1] = "2" /\ t[2] \in {"0", "1", "2", "3", "4"}
          \/ t[1] = "2" /\ t[2] = "5" /\ t[3] \in {"0", "1", "2", "3", "4", "5"}

\* ip_pattern.match(text)
IsIp(text) ==
    LET parts == SplitDots(text)
    IN Len(parts) = 4 /\ \A i \in 1..4 : IsOctet(parts[i])

\* url_pattern.match(text): ^https?://[^\s/$.?#].[^\s]*$
IsUrl(text) ==
    \E scheme \in {<<"h", "t", "t", "p", ":", "/", "/">>,
                   <<"h", "t", "t", "p", "s", ":", "/", "/">>} :
        LET n == Len(scheme)
        IN /\ Len(text) >= n + 2
           /\ SubSeq(text, 1, n) = scheme
           /\ text[n + 1] \notin Whitespace \cup {"/", "$", ".", "?", "#"}
           /\ text[n + 2] # "\n"
           /\ \A i \in (n + 3)..Len(text) : text[i] \notin Whitespace

\* AccountCreate.validate_login_free_address, of an optional value: a value
\* that is blank passes as it is
login_free_address_refused(v) ==
    /\ v # None
    /\ Strip(v[1]) # <<>>
    /\ ~(IsIp(Strip(v[1])) \/ IsUrl(Strip(v[1])))
validate_login_free_address(v) ==
    IF v # None /\ Strip(v[1]) # <<>> THEN Some(Strip(v[1])) ELSE v

\* mac_pattern.match(v): ^([0-9A-Fa-f]{2}[:-]){5}([0-9A-Fa-f]{2})$, where $
\* matches before a newline that ends the text too
HexDigits == Digits \cup {"a", "b", "c", "d", "e", "f", "A", "B", "C", "D", "E", "F"}
IsMac(text) ==
    LET t == IF Len(text) = 18 /\ text[18] = "\n" THEN SubSeq(text, 1, 17) ELSE text
    IN /\ Len(t) = 17
       /\ \A i \in 1..17 : IF i % 3 = 0 THEN t[i] \in {":", "-"}
                           ELSE t[i] \in HexDigits

\* TrackingObjectCreate.validate_mac_address, of an optional value
mac_refused(v) == v # None /\ ~IsMac(v[1])

\* TrackingObjectCreate.validate_name
object_name_refused(v) == Strip(v) = <<>> \/ Len(Strip(v)) > MaxObjectNameLen
validate_name(v) == Strip(v)

\* ---- create, get, update and delete of one row ----
\* What such a request gives its caller: the request (the id of the path, the
\* body as validated) and the result.
Answered(op, id, body, status, detail, item) ==
    [op |-> op, id |-> id, body |-> body, status |-> status, detail |-> detail,
     item |-> item]

\* The values the sequences have given, and the calls that are about to take
\* one more.
Created ==
    sequences.Organizations + sequences.Accounts + sequences.Tracking_Objects
Creating == Cardinality({s \in Sessions : call[s].op = "create_organization"})

\* The row an id names, with its key: Organization(id=row[0], ...),
\* Account(sn=row[0], ...), TrackingObject(sn=row[0], ...)
ItemOf(key, id, row) == [k \in {key} |-> id] @@ row

\* The call of session s goes on to its write.
GoesOn(s, op, id, body) ==
    /\ call' = [call EXCEPT ![s] = [op |-> op, id |-> id, body |-> body]]
    /\ last' = NoLast
    /\ UNCHANGED <<db, now, txn>>

\* The call ends before any row is written, or with its write undone.
Refused(op, id, body, status, detail) ==
    /\ last' = Answered(op, id, body, status, detail, None)
    /\ UNCHANGED <<db, now, txn>>

\* ---- organizations ----
OrganizationCreate(organization_name, title, product_type) ==
    [organization_name |-> organization_name, title |-> title,
     product_type |-> product_type]

OrganizationCreateRefused(b) ==
    \/ organization_name_refused(b.organization_name)
    \/ title_refused(b.title)
    \/ product_type_refused(b.product_type)

OrganizationCreateValidated(b) ==
    OrganizationCreate(validate_organization_name(b.organization_name),
                       validate_title(b.title),
                       validate_product_type(b.product_type))

\* SELECT 1 FROM Organizations WHERE organization_name = %s
OrganizationNameExists(organization_name) ==
    \E id \in DOMAIN Organizations :
        Organizations[id].organization_name = organization_name

\* The query without the column product_type.
get_organization_by_id_WithoutProductType(organization_id) ==
    IF organization_id \in DOMAIN Organizations
       THEN Some(ItemOf("id", organization_id,
                        [Organizations[organization_id] EXCEPT !.product_type = None]))
    ELSE None

\* SELECT id, organization_name, title, product_type, create_time
\* FROM Organizations WHERE id = %s
get_organization_by_id(organization_id) ==
    IF organization_id \in DOMAIN Organizations
       THEN Some(ItemOf("id", organization_id, Organizations[organization_id]))
    ELSE None

\* create_organization, to the INSERT: the body is validated and the name
\* looked for.
create_organization(s, organization) ==
    /\ Quiet
    /\ call[s].op = "none"
    /\ LET op == "create_organization"
           v == OrganizationCreateValidated(organization)
       IN IF OrganizationCreateRefused(organization)
             THEN /\ Refused(op, None, organization,
                             HTTP_422_UNPROCESSABLE_ENTITY, "validation error")
                  /\ call' = call
          ELSE IF OrganizationNameExists(v.organization_name)
             THEN /\ Refused(op, None, v, HTTP_400_BAD_REQUEST,
                             "Organization name already exists")
                  /\ call' = call
          ELSE /\ Created + Creating < MaxCreated
               /\ GoesOn(s, op, None, v)

\* INSERT INTO Organizations (...) VALUES (%s, %s, %s, %s) RETURNING ...;
\* conn.commit()
create_organization_insert(s) ==
    /\ Quiet
    /\ call[s].op = "create_organization"
    /\ LET id == sequences.Organizations + 1
           row == call[s].body @@ [create_time |-> Some(now)]
       IN /\ Organizations' = (id :> row) @@ Organizations
          /\ sequences' = [sequences EXCEPT !.Organizations = id]
          /\ last' = Answered(call[s].op, None, call[s].body, HTTP_201_CREATED,
                              "", Some(ItemOf("id", id, row)))
    /\ call' = [call EXCEPT ![s] = NoCall]
    /\ UNCHANGED <<Alarms, Tags, Accounts, Route_List, Tracking_Objects,
                 connections, now, txn>>

\* The exception raised after conn.commit(): the row of the call is written
\* and the except clause answers 500.
statement_raises_AfterCommit(s, detail) ==
    /\ Quiet
    /\ call[s].op # "none"
    /\ Organizations' =
          ((sequences.Organizations + 1) :> call[s].body) @@ Organizations
    /\ last' = Answered(call[s].op, call[s].id, call[s].body,
                        HTTP_500_INTERNAL_SERVER_ERROR, detail, None)
    /\ call' = [call EXCEPT ![s] = NoCall]
    /\ UNCHANGED <<Alarms, Tags, listed_only, now, txn>>

\* A statement of the call raises (the server is gone, the statement is
\* cancelled): the with-block rolls back, the except clause answers 500.
statement_raises(s, detail) ==
    /\ Quiet
    /\ call[s].op # "none"
    /\ Refused(call[s].op, call[s].id, call[s].body,
               HTTP_500_INTERNAL_SERVER_ERROR, detail)
    /\ call' = [call EXCEPT ![s] = NoCall]

create_organization_raises(s) ==
    /\ call[s].op = "create_organization"
    /\ statement_raises(s, "Failed to create organization")

OrganizationUpdate(organization_name, title, product_type) ==
    [organization_name |-> organization_name, title |-> title,
     product_type |-> product_type]

OrganizationUpdateRefused(b) ==
    \/ b.organization_name # None /\ organization_name_refused(b.organization_name[1])
    \/ b.title # None /\ title_refused(b.title[1])
    \/ product_type_refused(b.product_type)

OrganizationUpdateValidated(b) ==
    OrganizationUpdate(
        IF b.organization_name # None
           THEN Some(validate_organization_name(b.organization_name[1])) ELSE None,
        IF b.title # None THEN Some(validate_title(b.title[1])) ELSE None,
        validate_product_type(b.product_type))

\* SELECT 1 FROM Organizations WHERE organization_name = %s AND id != %s
OrganizationNameTaken(organization_name, organization_id) ==
    \E id \in DOMAIN Organizations \ {organization_id} :
        Organizations[id].organization_name = organization_name

\* The test of one field only: if the last field is not given.
NoFields_LastFieldOnly(b) ==
    \E k \in DOMAIN b : b[k] = None /\ k \in {"product_type", "login_free_address", "mac"}

\* if not update_fields
NoFields(b) == \A k \in DOMAIN b : b[k] = None

\* UPDATE ... SET the fields given ... WHERE id = %s
UpdatedRow(row, b) ==
    [k \in DOMAIN row |->
        IF k \in DOMAIN b /\ b[k] # None
           THEN (IF k = "product_type" \/ k = "login_free_address" \/ k = "role"
                    \/ k = "mac"
                 THEN b[k] ELSE b[k][1])
        ELSE row[k]]

\* update_organization, to the UPDATE
update_organization(s, organization_id, organization_update) ==
    /\ Quiet
    /\ call[s].op = "none"
    /\ LET op == "update_organization"
           v == OrganizationUpdateValidated(organization_update)
       IN IF OrganizationUpdateRefused(organization_update)
             THEN /\ Refused(op, Some(organization_id), organization_update,
                             HTTP_422_UNPROCESSABLE_ENTITY, "validation error")
                  /\ call' = call
          ELSE IF /\ v.organization_name # None
                  /\ OrganizationNameTaken(v.organization_name[1], organization_id)
             THEN /\ Refused(op, Some(organization_id), v, HTTP_400_BAD_REQUEST,
                             "Organization name already exists")
                  /\ call' = call
          ELSE IF NoFields(v)
             THEN /\ Refused(op, Some(organization_id), v, HTTP_400_BAD_REQUEST,
                             "No fields to update")
                  /\ call' = call
          ELSE GoesOn(s, op, Some(organization_id), v)

\* UPDATE Organizations SET ... WHERE id = %s RETURNING ...; conn.commit();
\* the endpoint answers 404 where no row came back
update_organization_update(s) ==
    /\ Quiet
    /\ call[s].op = "update_organization"
    /\ LET id == call[s].id[1]
       IN IF id \in DOMAIN Organizations
             THEN LET row == UpdatedRow(Organizations[id], call[s].body)
                  IN /\ Organizations' = [Organizations EXCEPT ![id] = row]
                     /\ last' = Answered(call[s].op, call[s].id, call[s].body,
                                         HTTP_200_OK, "",
                                         Some(ItemOf("id", id, row)))
          ELSE /\ Organizations' = Organizations
               /\ last' = Answered(call[s].op, call[s].id, call[s].body,
                                   HTTP_404_NOT_FOUND, "Organization not found",
                                   None)
    /\ call' = [call EXCEPT ![s] = NoCall]
    /\ UNCHANGED <<Alarms, Tags, listed_only, now, txn>>

update_organization_raises(s) ==
    /\ call[s].op = "update_organization"
    /\ statement_raises(s, "Failed to update organization")

\* GET /organizations/{organization_id}
get_organization(organization_id) ==
    /\ Ready
    /\ LET organization == get_organization_by_id(organization_id)
       IN IF organization = None
             THEN Refused("get_organization", Some(organization_id), None,
                          HTTP_404_NOT_FOUND, "Organization not found")
          ELSE /\ last' = Answered("get_organization", Some(organization_id),
                                   None, HTTP_200_OK, "", organization)
               /\ UNCHANGED <<db, now, txn>>
    /\ call' = call

\* ---- accounts ----
AccountCreate(organization, account, permission, login_free_address) ==
    [organization |-> organization, account |-> account,
     permission |-> permission, login_free_address |-> login_free_address]

AccountCreateRefused(b) ==
    \/ account_name_refused(b.account)
    \/ permission_refused(b.permission)
    \/ login_free_address_refused(b.login_free_address)

AccountCreateValidated(b) ==
    AccountCreate(b.organization, validate_account_name(b.account), b.permission,
                  validate_login_free_address(b.login_free_address))

\* SELECT 1 FROM Accounts WHERE account = %s AND organization = %s
AccountExists(account, organization) ==
    \E sn \in DOMAIN Accounts :
        Accounts[sn].account = account /\ Accounts[sn].organization = organization

\* SELECT sn, organization, account, permission, login_free_address
\* FROM Accounts WHERE sn = %s
get_account_by_id(account_id) ==
    IF account_id \in DOMAIN Accounts
       THEN Some(ItemOf("sn", account_id, Accounts[account_id]))
    ELSE None

\* The call is served by a session that is free, and ends in this step.
Serves(answer) ==
    /\ Ready
    /\ last' = answer
    /\ UNCHANGED <<call, txn, now>>

create_account(account) ==
    LET op == "create_account"
        v == AccountCreateValidated(account)
        sn == sequences.Accounts + 1
    IN IF AccountCreateRefused(account)
          THEN /\ Serves(Answered(op, None, account,
                           HTTP_422_UNPROCESSABLE_ENTITY, "validation error", None))
               /\ UNCHANGED db
       ELSE IF AccountExists(v.account, v.organization)
          THEN /\ Serves(Answered(op, None, v, HTTP_400_BAD_REQUEST,
                           "Account already exists in this organization", None))
               /\ UNCHANGED db
       ELSE \/ /\ Created + Creating < MaxCreated
               /\ Serves(Answered(op, None, v, HTTP_201_CREATED, "",
                                  Some(ItemOf("sn", sn, v))))
               /\ Accounts' = (sn :> v) @@ Accounts
               /\ sequences' = [sequences EXCEPT !.Accounts = sn]
               /\ UNCHANGED <<Alarms, Tags, Organizations, Route_List,
                              Tracking_Objects, connections>>
            \/ /\ Serves(Answered(op, None, v, HTTP_500_INTERNAL_SERVER_ERROR,
                                  "Failed to create account", None))
               /\ UNCHANGED db

AccountUpdate(account, permission, login_free_address) ==
    [account |-> account, permission |-> permission,
     login_free_address |-> login_free_address]

AccountUpdateRefused(b) ==
    \/ b.account # None /\ account_name_refused(b.account[1])
    \/ b.permission # None /\ permission_refused(b.permission[1])
    \/ login_free_address_refused(b.login_free_address)

AccountUpdateValidated(b) ==
    AccountUpdate(
        IF b.account # None THEN Some(validate_account_name(b.account[1])) ELSE None,
        b.permission,
        validate_login_free_address(b.login_free_address))

\* The rows of Accounts after UPDATE Accounts SET ... WHERE sn = %s; commit
AccountsUpdated(account_id, b) ==
    IF account_id \in DOMAIN Accounts
       THEN [Accounts EXCEPT ![account_id] = UpdatedRow(@, b)]
    ELSE Accounts

update_account(account_id, account_update) ==
    LET op == "update_account"
        v == AccountUpdateValidated(account_update)
        updated == AccountsUpdated(account_id, v)
    IN IF AccountUpdateRefused(account_update)
          THEN /\ Serves(Answered(op, Some(account_id), account_update,
                           HTTP_422_UNPROCESSABLE_ENTITY, "validation error", None))
               /\ UNCHANGED db
       ELSE IF NoFields(v)
          THEN /\ Serves(Answered(op, Some(account_id), v, HTTP_400_BAD_REQUEST,
                                  "No fields to update", None))
               /\ UNCHANGED db
       ELSE \/ /\ Serves(IF account_id \in DOMAIN Accounts
                         THEN Answered(op, Some(account_id), v, HTTP_200_OK, "",
                                  Some(ItemOf("sn", account_id, updated[account_id])))
                         ELSE Answered(op, Some(account_id), v, HTTP_404_NOT_FOUND,
                                  "Account not found", None))
               /\ Accounts' = updated
               /\ UNCHANGED <<Alarms, Tags, Organizations, Route_List,
                              Tracking_Objects, sequences, connections>>
            \/ /\ Serves(Answered(op, Some(account_id), v,
                           HTTP_500_INTERNAL_SERVER_ERROR,
                           "Failed to update account", None))
               /\ UNCHANGED db

\* DELETE FROM Accounts WHERE sn = %s; return deleted_count > 0
delete_account(account_id) ==
    LET op == "delete_account"
    IN \/ /\ Serves(IF account_id \in DOMAIN Accounts
                    THEN Answered(op, Some(account_id), None,
                                  HTTP_204_NO_CONTENT, "", None)
                    ELSE Answered(op, Some(account_id), None,
                                  HTTP_404_NOT_FOUND, "Account not found", None))
          /\ Accounts' = Restrict(Accounts, DOMAIN Accounts \ {account_id})
          /\ UNCHANGED <<Alarms, Tags, Organizations, Route_List,
                         Tracking_Objects, sequences, connections>>
       \/ /\ Serves(Answered(op, Some(account_id), None,
                             HTTP_500_INTERNAL_SERVER_ERROR,
                             "Failed to delete account", None))
          /\ UNCHANGED db

\* GET /accounts/{account_id}
get_account(account_id) ==
    /\ Serves(IF get_account_by_id(account_id) = None
              THEN Answered("get_account", Some(account_id), None,
                            HTTP_404_NOT_FOUND, "Account not found", None)
              ELSE Answered("get_account", Some(account_id), None, HTTP_200_OK,
                            "", get_account_by_id(account_id)))
    /\ UNCHANGED db

\* ---- tracking objects ----
TrackingObjectCreate(organization, name, role, mac) ==
    [organization |-> organization, name |-> name, role |-> role, mac |-> mac]

TrackingObjectCreateRefused(b) == mac_refused(b.mac) \/ object_name_refused(b.name)

TrackingObjectCreateValidated(b) ==
    TrackingObjectCreate(b.organization, validate_name(b.name), b.role, b.mac)

\* SELECT sn, organization, name, role, mac FROM Tracking_Objects WHERE sn = %s
get_tracking_object_by_id(object_id) ==
    IF object_id \in DOMAIN Tracking_Objects
       THEN Some(ItemOf("sn", object_id, Tracking_Objects[object_id]))
    ELSE None

create_tracking_object(tracking_object) ==
    LET op == "create_tracking_object"
        v == TrackingObjectCreateValidated(tracking_object)
        sn == sequences.Tracking_Objects + 1
    IN IF TrackingObjectCreateRefused(tracking_object)
          THEN /\ Serves(Answered(op, None, tracking_object,
                           HTTP_422_UNPROCESSABLE_ENTITY, "validation error", None))
               /\ UNCHANGED db
       ELSE \/ /\ Created + Creating < MaxCreated
               /\ Serves(Answered(op, None, v, HTTP_201_CREATED, "",
                                  Some(ItemOf("sn", sn, v))))
               /\ Tracking_Objects' = (sn :> v) @@ Tracking_Objects
               /\ sequences' = [sequences EXCEPT !.Tracking_Objects = sn]
               /\ UNCHANGED <<Alarms, Tags, Organizations, Accounts, Route_List,
                              connections>>
            \/ /\ Serves(Answered(op, None, v, HTTP_500_INTERNAL_SERVER_ERROR,
                                  "Failed to create tracking object", None))
               /\ UNCHANGED db

\* GET /tracking-objects/{object_id}
get_tracking_object(object_id) ==
    /\ Serves(IF get_tracking_object_by_id(object_id) = None
              THEN Answered("get_tracking_object", Some(object_id), None,
                            HTTP_404_NOT_FOUND, "Tracking object not found", None)
              ELSE Answered("get_tracking_object", Some(object_id), None,
                            HTTP_200_OK, "", get_tracking_object_by_id(object_id)))
    /\ UNCHANGED db

TrackingObjectUpdate(name, role, mac) == [name |-> name, role |-> role, mac |-> mac]

TrackingObjectUpdateRefused(b) ==
    \/ mac_refused(b.mac)
    \/ b.name # None /\ object_name_refused(b.name[1])

TrackingObjectUpdateValidated(b) ==
    TrackingObjectUpdate(
        IF b.name # None THEN Some(validate_name(b.name[1])) ELSE None, b.role, b.mac)

\* UPDATE Tracking_Objects SET ... WHERE sn = %s RETURNING ...; conn.commit();
\* the endpoint answers 404 where no row came back
update_tracking_object(object_id, tracking_object) ==
    LET op == "update_tracking_object"
        v == TrackingObjectUpdateValidated(tracking_object)
    IN IF TrackingObjectUpdateRefused(tracking_object)
          THEN /\ Serves(Answered(op, Some(object_id), tracking_object,
                           HTTP_422_UNPROCESSABLE_ENTITY, "validation error", None))
               /\ UNCHANGED db
       ELSE IF NoFields(v)
          THEN /\ Serves(Answered(op, Some(object_id), v, HTTP_400_BAD_REQUEST,
                                  "No fields to update", None))
               /\ UNCHANGED db
       ELSE \/ /\ IF object_id \in DOMAIN Tracking_Objects
                  THEN LET row == UpdatedRow(Tracking_Objects[object_id], v)
                       IN /\ Serves(Answered(op, Some(object_id), v, HTTP_200_OK,
                                             "", Some(ItemOf("sn", object_id, row))))
                          /\ Tracking_Objects' =
                                [Tracking_Objects EXCEPT ![object_id] = row]
                  ELSE /\ Serves(Answered(op, Some(object_id), v,
                                   HTTP_404_NOT_FOUND,
                                   "Tracking object not found", None))
                       /\ Tracking_Objects' = Tracking_Objects
               /\ UNCHANGED <<Alarms, Tags, Organizations, Accounts, Route_List,
                              sequences, connections>>
            \/ /\ Serves(Answered(op, Some(object_id), v,
                           HTTP_500_INTERNAL_SERVER_ERROR,
                           "Failed to update tracking object", None))
               /\ UNCHANGED db

\* ---- the bulk mutations, as concurrent sessions ----
IdleSessions ==
    /\ call = [s \in Sessions |-> NoCall]
    /\ txn = [s \in Sessions |-> NoTxn]
    /\ last = NoLast

\* The database holds alarms or tags (the two tables share no rows and no
\* statement reads both), each row of some organization, no alarm handled yet.
InitBulk ==
    /\ IdleSessions
    /\ now = 0
    /\ connections = NoConnections(TRUE)
    /\ sequences = SequencesAt(2)
    /\ Accounts = <<>>
    /\ Route_List = <<>>
    /\ Tracking_Objects = <<>>
    /\ \/ /\ Alarms \in Tables(AlarmIds,
                        {AlarmRow(o, Imei1, "geofence", 1) : o \in OrgNames})
          /\ Tags = <<>>
          /\ Organizations = <<>>
       \/ /\ Alarms = <<>>
          /\ Tags \in Tables(TagIds, {TagRow(o, Imei1) : o \in OrgNames})
          /\ Organizations \in [OrgIds -> {OrganizationRow(n) : n \in OrgNames}]

NextBulk ==
    \/ \E s \in Sessions, ids \in SeqsUpTo(AlarmIds, MaxBatch) :
          handle_alarms(s, ids)
    \/ \E s \in Sessions : handle_alarms_update(s)
    \/ \E s \in Sessions : handle_alarms_update_raises(s)
    \/ \E s \in Sessions : handle_alarms_commit(s)
    \/ \E s \in Sessions, ids \in SeqsUpTo(TagIds, MaxBatch),
          o \in RequestOrgIds :
          transfer_tags(s, ids, o)
    \/ \E s \in Sessions : transfer_tags_update(s)
    \/ \E s \in Sessions : transfer_tags_update_raises(s)
    \/ \E s \in Sessions : transfer_tags_commit(s)
    \/ Deliver
    \/ Tick
    \/ \E sn \in AlarmIds : DeleteAlarm(sn)
    \/ \E sn \in TagIds : DeleteTag(sn)

SpecBulk == InitBulk /\ [][NextBulk]_vars

\* ---- the list endpoints, over the data they read ----
\* The page numbers and page sizes a request may carry: in range, a page
\* number below it, and a page size above it.
PageInputs == 0..MaxPage
PageSizeInputs == 1..MaxPageSize \cup {PageSizeLimit + 1}

AlarmFilters ==
    {AlarmFilter(o, w, a, b) :
        o \in OrgNames, w \in {None, Some("geofence")},
        a \in {None, Some(2)}, b \in {None, Some(1)}}
RouteFilters ==
    {RouteFilter(o, a, b) :
        o \in OrgNames, a \in {None, Some(1)}, b \in {Some(t) : t \in Times}}
TagFilters ==
    {TagFilter(o, m) :
        o \in {None, Some(""), Some("acme")},
        m \in {None, Some(<<>>), Some(<<"b">>), Some(<<" ", "A", " ">>)}}
AccountFilters ==
    {AccountFilter(o, n) : o \in OrgNames, n \in {None, Some(<<"b">>)}}

ObjectName == <<"v", "a", "n">>

\* The database holds the rows one of the list endpoints reads.
InitList ==
    /\ IdleSessions
    /\ now = 0
    /\ connections = NoConnections(TRUE)
    /\ sequences = SequencesAt(2)
    /\ \/ /\ Alarms \in Tables(AlarmIds,
                {AlarmRow(o, Imei1, "geofence", 1) : o \in OrgNames}
                \cup {AlarmRow(o, Imei1, "low_battery", 2) : o \in OrgNames})
          /\ \/ Tags = <<>> /\ Tracking_Objects = <<>>
             \/ /\ Tags \in [{1} -> {TagRow("acme", Imei1)}]
                      \cup [TagIds -> {TagRow("acme", Imei1)}]
                /\ Tracking_Objects \in
                     {<<>>} \cup [{1} -> {TrackingObjectRow(Imei1, ObjectName)}]
          /\ Organizations = <<>>
          /\ Accounts = <<>>
          /\ Route_List = <<>>
       \/ /\ Tags \in Tables(TagIds, {TagRow(o, i) : o \in OrgNames, i \in Texts})
          /\ Organizations \in [OrgIds -> {OrganizationRow(n) : n \in OrgNames}]
          /\ Organizations[1].organization_name = "acme"
          /\ Alarms = <<>>
          /\ Accounts = <<>>
          /\ Route_List = <<>>
          /\ Tracking_Objects = <<>>
       \/ /\ Route_List \in Tables(RouteIds,
                {RouteRow(Imei1, t) : t \in Times} \cup {RouteRow(Imei2, 1)})
          /\ Tags \in [{1} -> {TagRow(o, Imei1) : o \in OrgNames}]
          /\ Organizations \in [OrgIds -> {OrganizationRow(n) : n \in OrgNames}]
          /\ Organizations[1].organization_name = "acme"
          /\ Tracking_Objects \in
               {<<>>} \cup [{1} -> {TrackingObjectRow(Imei1, ObjectName)}]
          /\ Alarms = <<>>
          /\ Accounts = <<>>
       \/ /\ Route_List \in [{1} -> {RouteRow(Imei1, 1)}]
          /\ Tags \in [{1} -> {TagRow("acme", Imei1)}]
          /\ Organizations \in [{1} -> {OrganizationRow("acme")}]
          /\ Tracking_Objects \in
               [ObjectIds -> {TrackingObjectRow(Imei1, ObjectName)}]
          /\ Alarms = <<>>
          /\ Accounts = <<>>
       \/ /\ Accounts \in Tables(AccountIds,
                {AccountRow(o, a) : o \in OrgNames, a \in Texts})
          /\ Alarms = <<>>
          /\ Tags = <<>>
          /\ Organizations = <<>>
          /\ Route_List = <<>>
          /\ Tracking_Objects = <<>>
       \/ /\ Organizations \in Tables(OrgIds, {OrganizationRow(n) : n \in OrgNames})
          /\ Alarms = <<>>
          /\ Tags = <<>>
          /\ Accounts = <<>>
          /\ Route_List = <<>>
          /\ Tracking_Objects = <<>>

NextList ==
    \/ \E f \in AlarmFilters,
          page \in PageInputs, page_size \in PageSizeInputs :
          list_alarms(f, page, page_size)
    \/ \E f \in RouteFilters,
          page \in PageInputs, page_size \in PageSizeInputs :
          list_routes(f, page, page_size)
    \/ \E f \in TagFilters,
          page \in PageInputs, page_size \in PageSizeInputs :
          list_tags(f, page, page_size)
    \/ \E f \in AccountFilters,
          page \in PageInputs, page_size \in PageSizeInputs :
          list_accounts(f, page, page_size)
    \/ \E page \in PageInputs, page_size \in PageSizeInputs :
          list_organizations(page, page_size)
    \/ \E alarm_id \in AlarmIds : get_alarm(alarm_id)
    \/ \E route_id \in RouteIds : get_route(route_id)
    \/ Deliver

SpecList == InitList /\ [][NextList]_vars

\* ---- create, get, update and delete, from an empty database ----
\* The bodies the requests carry: values that validation passes, some of them
\* padded with blanks, and values it refuses.
OrganizationName1 == <<"a", "b", "c">>
OrganizationName2 == <<"x", "y", "z">>
OrganizationBodies ==
    {OrganizationCreate(<<" ">> \o OrganizationName1 \o <<" ">>, <<" ", "T">>,
                        Some(<<"p", " ">>)),
     OrganizationCreate(OrganizationName2, <<"T">>, None),
     OrganizationCreate(<<"a", "b">>, <<"T">>, None),
     OrganizationCreate(OrganizationName1, <<" ">>, None)}
OrganizationUpdates ==
    {OrganizationUpdate(Some(OrganizationName1), None, None),
     OrganizationUpdate(Some(<<" ">> \o OrganizationName2), None, None),
     OrganizationUpdate(None, None, None),
     OrganizationUpdate(Some(<<"A", "b", "c">>), None, None)}

Address1 == <<"1", ".", "2", "5", "5", ".", "0", ".", "4">>
AccountBodies ==
    {AccountCreate(OrganizationName1, <<" ">> \o Imei1, "admin", Some(<<" ">> \o Address1)),
     AccountCreate(OrganizationName1, Imei2, "user", Some(<<" ">>)),
     AccountCreate(OrganizationName1, <<"a", " ", "x">>, "user", None),
     AccountCreate(OrganizationName1, Imei1, "root", None),
     AccountCreate(OrganizationName1, Imei1, "user", Some(<<"2", "5", "6", ".", "0", ".", "0", ".", "1">>))}
AccountUpdates ==
    {AccountUpdate(Some(Imei1), None, None),
     AccountUpdate(Some(Imei2 \o <<" ">>), None, None),
     AccountUpdate(None, None, None),
     AccountUpdate(None, Some("root"), None)}

Mac1 == <<"0", "A", ":", "1", "b", ":", "2", "C", ":", "3", "d", ":", "4", "E",
          ":", "5", "f">>
TrackingObjectBodies ==
    {TrackingObjectCreate(OrganizationName1, <<" ">> \o ObjectName, None, Some(Mac1)),
     TrackingObjectCreate(OrganizationName1, <<" ">>, None, None),
     TrackingObjectCreate(OrganizationName1, ObjectName, None, Some(Imei1))}
TrackingObjectUpdates ==
    {TrackingObjectUpdate(Some(<<"c", "a", "r", " ">>), None, None),
     TrackingObjectUpdate(None, None, None),
     TrackingObjectUpdate(None, None, Some(Imei1))}

\* The ids a path may name: the first two the sequences give.
PathIds == {1, 2}

InitCrud ==
    /\ IdleSessions
    /\ now = 0
    /\ connections = NoConnections(TRUE)
    /\ sequences = SequencesAt(0)
    /\ Alarms = <<>>
    /\ Tags = <<>>
    /\ Organizations = <<>>
    /\ Accounts = <<>>
    /\ Route_List = <<>>
    /\ Tracking_Objects = <<>>

NextCrud ==
    \/ \E s \in Sessions, b \in OrganizationBodies : create_organization(s, b)
    \/ \E s \in Sessions : create_organization_insert(s)
    \/ \E s \in Sessions : create_organization_raises(s)
    \/ \E s \in Sessions, id \in PathIds, b \in OrganizationUpdates :
          update_organization(s, id, b)
    \/ \E s \in Sessions : update_organization_update(s)
    \/ \E s \in Sessions : update_organization_raises(s)
    \/ \E id \in PathIds : get_organization(id)
    \/ \E b \in AccountBodies : create_account(b)
    \/ \E id \in PathIds, b \in AccountUpdates : update_account(id, b)
    \/ \E id \in PathIds : delete_account(id)
    \/ \E id \in PathIds : get_account(id)
    \/ \E b \in TrackingObjectBodies : create_tracking_object(b)
    \/ \E id \in PathIds : get_tracking_object(id)
    \/ \E id \in PathIds, b \in TrackingObjectUpdates : update_tracking_object(id, b)
    \/ Deliver

SpecCrud == InitCrud /\ [][NextCrud]_vars

\* ---- get_conn and the operations that use it ----
\* with next(get_conn()) as conn: the generator runs to its yield.
\* pool_instance.getconn() hands out a connection of the pool's idle list, or
\* a new one; psycopg2.connect() makes one.
get_conn(s) ==
    /\ Quiet
    /\ call[s].op = "none"
    /\ \E conn \in (IF connections.pooled /\ connections.idle # {}
                    THEN connections.idle
                    ELSE {connections.opened + 1}) :
          /\ conn <= MaxConnections
          /\ connections' =
                [connections EXCEPT
                   !.idle = @ \ {conn},
                   !.used = IF connections.pooled THEN @ \cup {conn} ELSE @,
                   !.open = IF connections.pooled THEN @ ELSE @ \cup {conn},
                   !.opened = IF conn > @ THEN conn ELSE @,
                   !.generator[s] = Some(conn),
                   !.acquired[s] = Some(conn),
                   !.releases[s] = 0]
          /\ call' = [call EXCEPT ![s] = [op |-> "service_operation",
                                          id |-> None, body |-> None]]
    /\ last' = NoLast
    /\ UNCHANGED <<Alarms, Tags, Organizations, Accounts, Route_List,
                   Tracking_Objects, sequences, now, txn>>

\* The connection went back to the pool or was closed: once more for every
\* operation in progress that got it (counted up to MaxReleases).
Released(conn, releases) ==
    [s \in Sessions |->
        IF /\ connections.acquired[s] = Some(conn)
           /\ call[s].op = "service_operation"
           /\ releases[s] < MaxReleases
        THEN releases[s] + 1
        ELSE releases[s]]

\* The generator, which nothing refers to once next() has returned, is
\* finalized: GeneratorExit is raised at its yield. In the pooled branch the
\* finally clause runs pool_instance.putconn(conn), which keeps the connection
\* while the idle list holds fewer than minconn and closes it otherwise; in the
\* direct branch conn.close() follows the yield and is not reached.
get_conn_close(s) ==
    /\ Quiet
    /\ connections.generator[s] # None
    /\ LET conn == connections.generator[s][1]
       IN connections' =
             IF connections.pooled
             THEN [connections EXCEPT
                     !.generator[s] = None,
                     !.used = @ \ {conn},
                     !.idle = IF Cardinality(@) < minconn THEN @ \cup {conn}
                              ELSE @,
                     !.releases = Released(conn, @)]
             ELSE [connections EXCEPT !.generator[s] = None]
    /\ last' = NoLast
    /\ UNCHANGED <<Alarms, Tags, Organizations, Accounts, Route_List,
                   Tracking_Objects, sequences, now, call, txn>>

\* The ways the with-block is left, and the response of each.
Exits == {"return", "HTTPException", "Exception"}
StatusOf(exit) ==
    CASE exit = "return" -> HTTP_200_OK
      [] exit = "HTTPException" -> HTTP_400_BAD_REQUEST
      [] exit = "Exception" -> HTTP_500_INTERNAL_SERVER_ERROR

\* The with-block of the operation is left: the connection commits or rolls
\* back (its __exit__ does not close it), and the operation ends.
service_operation_ends(s, exit) ==
    /\ Quiet
    /\ call[s].op = "service_operation"
    /\ call' = [call EXCEPT ![s] = NoCall]
    /\ last' = [session |-> Some(s), op |-> "service_operation", exit |-> exit,
                status |-> StatusOf(exit)]
    /\ UNCHANGED <<db, now, txn>>

\* The operations that use a connection.
UsersOf(conn) ==
    {s \in Sessions : call[s].op = "service_operation"
                      /\ connections.acquired[s] = Some(conn)}

\* A direct connection that nothing refers to any more is deallocated, which
\* closes it.
connection_dealloc(conn) ==
    /\ Quiet
    /\ conn \in connections.open
    /\ UsersOf(conn) = {}
    /\ \A s \in Sessions : connections.generator[s] # Some(conn)
    /\ connections' = [connections EXCEPT !.open = @ \ {conn},
                                          !.releases = Released(conn, @)]
    /\ last' = NoLast
    /\ UNCHANGED <<Alarms, Tags, Organizations, Accounts, Route_List,
                   Tracking_Objects, sequences, now, call, txn>>

InitConn ==
    /\ IdleSessions
    /\ now = 0
    /\ sequences = SequencesAt(0)
    /\ connections \in {NoConnections(pooled) : pooled \in BOOLEAN}
    /\ Alarms = <<>>
    /\ Tags = <<>>
    /\ Organizations = <<>>
    /\ Accounts = <<>>
    /\ Route_List = <<>>
    /\ Tracking_Objects = <<>>

NextConn ==
    \/ \E s \in Sessions : get_conn(s)
    \/ \E s \in Sessions : get_conn_close(s)
    \/ \E s \in Sessions, exit \in Exits : service_operation_ends(s, exit)
    \/ \E conn \in 1..MaxConnections : connection_dealloc(conn)
    \/ Deliver

SpecConn == InitConn /\ [][NextConn]_vars

\* ---- a bulk call and a request of the roles router in one process ----
\* The endpoints of the roles router are plain functions, which the server runs
\* in a worker thread while the event loop runs a bulk call. Every operation
\* acquires by next(get_conn()): the generator is finalized when next() has
\* returned, its finally clause has put the connection back, and the pool
\* (minconn = 1) hands its one idle connection to the next operation of the
\* process. The operation of the thread t runs on the connection of the call
\* of s, and txn[s] is the transaction of that connection.

\* with next(get_conn()) as conn, in get_roles_by_organization: getconn hands
\* out the connection; the finalization of the generator runs putconn, which
\* rolls back a connection it finds in a transaction; the SELECT follows.
get_roles_by_organization(t, s) ==
    /\ Quiet
    /\ call[t].op = "none"
    /\ call' = [call EXCEPT ![t] = [NoCall EXCEPT !.op = "get_roles_by_organization"]]
    /\ txn' = [txn EXCEPT ![s].writes = <<>>, ![s].aborted = FALSE]
    /\ last' = NoLast
    /\ UNCHANGED <<db, now>>

\* The with-block of get_roles_by_organization is left: conn.commit() commits
\* what the connection has executed since its last commit or rollback.
get_roles_by_organization_ends(t, s) ==
    /\ Quiet
    /\ call[t].op = "get_roles_by_organization"
    /\ Alarms' = IF txn[s].table = "Alarms"
                    THEN Committed(Alarms, txn[s].writes, txn[s].aborted)
                 ELSE Alarms
    /\ Tags' = IF txn[s].table = "Tags"
                  THEN Committed(Tags, txn[s].writes, txn[s].aborted)
               ELSE Tags
    /\ txn' = [txn EXCEPT ![s].writes = <<>>, ![s].aborted = FALSE]
    /\ call' = [call EXCEPT ![t] = NoCall]
    /\ last' = NoLast
    /\ UNCHANGED <<Organizations, listed_only, now>>

\* The session of the event loop, and the worker thread.
EventLoop == 1
WorkerThread == 2

NextShared ==
    \/ \E ids \in SeqsUpTo(AlarmIds, MaxBatch) : handle_alarms(EventLoop, ids)
    \/ handle_alarms_update(EventLoop)
    \/ handle_alarms_commit(EventLoop)
    \/ \E ids \in SeqsUpTo(TagIds, MaxBatch), o \in RequestOrgIds :
          transfer_tags(EventLoop, ids, o)
    \/ transfer_tags_update(EventLoop)
    \/ transfer_tags_commit(EventLoop)
    \/ get_roles_by_organization(WorkerThread, EventLoop)
    \/ get_roles_by_organization_ends(WorkerThread, EventLoop)
    \/ Deliver

SpecShared == InitBulk /\ [][NextShared]_vars

\* ---- a list request beside other writers: its two queries, one by one ----
\* A list call between cur.execute(count_query) and cur.execute(base_query).
PagedCall(op, f, page, page_size, total_count) ==
    [op |-> op, filter |-> f, page |-> page, page_size |-> page_size,
     total_count |-> total_count]

\* cur.execute(count_query, params); total_count = cur.fetchone()[0]
count_query(s, op, f, page, page_size, total_count) ==
    /\ Quiet
    /\ call[s].op = "none"
    /\ ValidWindow(page, page_size)
    /\ call' = [call EXCEPT ![s] = PagedCall(op, f, page, page_size, total_count)]
    /\ last' = NoLast
    /\ UNCHANGED <<db, now, txn>>

\* cur.execute(base_query, params); rows = cur.fetchall(); return {...}: the
\* statement reads what is committed when it starts (READ COMMITTED), and the
\* result carries the total_count the first statement read.
row_query(s, op, endpoint, results) ==
    /\ Quiet
    /\ call[s].op = op
    /\ \E result \in results :
          last' = Listed(endpoint, call[s].filter, call[s].page, call[s].page_size,
                         IF result.status = HTTP_200_OK
                            THEN [result EXCEPT !.total_count = call[s].total_count]
                         ELSE result)
    /\ call' = [call EXCEPT ![s] = NoCall]
    /\ UNCHANGED <<db, now, txn>>

get_alarms_with_filters_count(s, f, page, page_size) ==
    count_query(s, "get_alarms_with_filters", f, page, page_size, AlarmCount(f))

get_alarms_with_filters_rows(s) ==
    /\ call[s].op = "get_alarms_with_filters"
    /\ row_query(s, "get_alarms_with_filters", "list_alarms",
                 get_alarms_with_filters(call[s].filter, call[s].page,
                                         call[s].page_size))

get_accounts_by_organization_count(s, f, page, page_size) ==
    count_query(s, "get_accounts_by_organization", f, page, page_size,
                AccountCount(f))

get_accounts_by_organization_rows(s) ==
    /\ call[s].op = "get_accounts_by_organization"
    /\ row_query(s, "get_accounts_by_organization", "list_accounts",
                 get_accounts_by_organization(call[s].filter, call[s].page,
                                              call[s].page_size))

\* Another writer of the database (the device gateway) stores an alarm.
InsertAlarm(sn) ==
    /\ Quiet
    /\ sn \notin DOMAIN Alarms
    /\ Alarms' = (sn :> AlarmRow("acme", Imei1, "geofence", 1)) @@ Alarms
    /\ last' = NoLast
    /\ UNCHANGED <<Tags, Organizations, listed_only, now, call, txn>>

PagedAlarmFilters == {AlarmFilter("acme", None, None, None)}
PagedAccountFilters == {AccountFilter(OrganizationName1, None)}
PagedAccountBodies ==
    {AccountCreate(OrganizationName1, Imei1, "user", None),
     AccountCreate(OrganizationName1, Imei2, "user", None)}
PagedPages == 1..MaxPage
PagedPageSizes == 1..MaxPageSize

\* Some alarms are stored, no account yet.
InitPaged ==
    /\ IdleSessions
    /\ now = 0
    /\ connections = NoConnections(TRUE)
    /\ sequences = SequencesAt(0)
    /\ Alarms \in Tables(AlarmIds, {AlarmRow("acme", Imei1, "geofence", 1)})
    /\ Tags = <<>>
    /\ Organizations = <<>>
    /\ Accounts = <<>>
    /\ Route_List = <<>>
    /\ Tracking_Objects = <<>>

NextPaged ==
    \/ \E s \in Sessions, f \in PagedAlarmFilters,
          page \in PagedPages, page_size \in PagedPageSizes :
          get_alarms_with_filters_count(s, f, page, page_size)
    \/ \E s \in Sessions : get_alarms_with_filters_rows(s)
    \/ \E s \in Sessions, f \in PagedAccountFilters,
          page \in PagedPages, page_size \in PagedPageSizes :
          get_accounts_by_organization_count(s, f, page, page_size)
    \/ \E s \in Sessions : get_accounts_by_organization_rows(s)
    \/ \E b \in PagedAccountBodies : create_account(b)
    \/ \E id \in AccountIds : delete_account(id)
    \/ \E sn \in AlarmIds : InsertAlarm(sn)
    \/ \E sn \in AlarmIds : DeleteAlarm(sn)
    \/ Deliver

SpecPaged == InitPaged /\ [][NextPaged]_vars

\* ---- properties of the bulk mutations ----
\* A step in which session s calls op: the call is rejected in that step
\* (last' holds the response) or enters its update loop.
Begins(s, op) ==
    /\ call[s].op = "none"
    /\ \/ last' = NoLast /\ call'[s].op = op
       \/ last' # NoLast /\ last'.session = Some(s) /\ last'.op = op

\* The id list of the call that begins.
BeginIds(s) == IF last' # NoLast THEN last'.request_ids ELSE call'[s].ids

\* The organization id of the transfer that begins.
BeginOrgId(s) ==
    IF last' # NoLast THEN last'.new_organization_id[1]
    ELSE call'[s].new_organization_id[1]

\* The call that begins is rejected with this status, and has written nothing.
RejectedWith(s, status) ==
    /\ last' # NoLast
    /\ last'.status = status
    /\ last'.persisted = {}
    /\ call'[s].op = "none"
    /\ txn'[s] = NoTxn
    /\ Alarms' = Alarms
    /\ Tags' = Tags

\* A non-empty id list without duplicates.
DuplicateFree(ids) == \A i, j \in 1..Len(ids) : ids[i] = ids[j] => i = j
AcceptableIds(ids) == ids # <<>> /\ DuplicateFree(ids)

\* The requested alarms that are handled in the committed rows.
HandledAmong(ids) == {sn \in Range(ids) \cap DOMAIN Alarms : Alarms[sn].is_handled}
OrganizationsAmong(ids) ==
    {Alarms[sn].organization : sn \in Range(ids) \cap DOMAIN Alarms}

\* C1, as claimed: a handle_alarms call on a batch with an already handled alarm
\* is rejected with the 400 that names the already handled ids, and writes
\* nothing.
C1_AsClaimed ==
    [][\A s \in Sessions :
         (/\ Begins(s, "handle_alarms")
          /\ AcceptableIds(BeginIds(s))
          /\ HandledAmong(BeginIds(s)) # {})
         => /\ RejectedWith(s, HTTP_400_BAD_REQUEST)
            /\ last'.detail = "Alarms already handled"
            /\ last'.ids = HandledAmong(BeginIds(s))]_vars

\* C1, amended: a handle_alarms call on a batch with an already handled alarm is
\* rejected as a whole (400 or 404) and writes nothing; when all requested ids
\* exist and their alarms belong to one organization, the error is the 400 that
\* names exactly the already handled ids.
C1_HandledBatchRejected ==
    [][\A s \in Sessions :
         (/\ Begins(s, "handle_alarms")
          /\ AcceptableIds(BeginIds(s))
          /\ HandledAmong(BeginIds(s)) # {})
         => /\ \/ RejectedWith(s, HTTP_400_BAD_REQUEST)
               \/ RejectedWith(s, HTTP_404_NOT_FOUND)
            /\ (/\ Range(BeginIds(s)) \subseteq DOMAIN Alarms
                /\ Cardinality(OrganizationsAmong(BeginIds(s))) = 1)
               => /\ last'.status = HTTP_400_BAD_REQUEST
                  /\ last'.detail = "Alarms already handled"
                  /\ last'.ids = HandledAmong(BeginIds(s))]_vars

\* A mixed batch was rejected: one of its alarms is handled and named, the other
\* is still unhandled.
C1_Witness ==
    /\ last # NoLast
    /\ last.op = "handle_alarms"
    /\ last.status = HTTP_400_BAD_REQUEST
    /\ last.detail = "Alarms already handled"
    /\ Len(last.request_ids) = 2
    /\ Cardinality(last.ids) = 1
    /\ \E sn \in Range(last.request_ids) : ~Alarms[sn].is_handled

\* C2: a handle_alarms call on existing alarms of two or more organizations is
\* rejected with 400 and leaves every alarm as it was.
C2_MixedOrganizationsRejected ==
    [][\A s \in Sessions :
         (/\ Begins(s, "handle_alarms")
          /\ AcceptableIds(BeginIds(s))
          /\ Range(BeginIds(s)) \subseteq DOMAIN Alarms
          /\ Cardinality(OrganizationsAmong(BeginIds(s))) >= 2)
         => /\ RejectedWith(s, HTTP_400_BAD_REQUEST)
            /\ last'.detail = "All alarms must belong to the same organization"]_vars

C2_Witness ==
    /\ last # NoLast
    /\ last.op = "handle_alarms"
    /\ last.status = HTTP_400_BAD_REQUEST
    /\ last.detail = "All alarms must belong to the same organization"
    /\ Cardinality(OrganizationsAmong(last.request_ids)) = 2

\* C3: a handle_alarms call with a requested id that is not stored fails with
\* the 404 that names exactly the missing requested ids, and no alarm changes.
C3_MissingAlarmsRejected ==
    [][\A s \in Sessions :
         (/\ Begins(s, "handle_alarms")
          /\ AcceptableIds(BeginIds(s))
          /\ ~(Range(BeginIds(s)) \subseteq DOMAIN Alarms))
         => /\ RejectedWith(s, HTTP_404_NOT_FOUND)
            /\ last'.detail = "Alarms not found"
            /\ Range(last'.ids) = Range(BeginIds(s)) \ DOMAIN Alarms
            /\ DuplicateFree(last'.ids)]_vars

\* A call was rejected for a missing id although another requested id exists.
C3_Witness ==
    /\ last # NoLast
    /\ last.op = "handle_alarms"
    /\ last.status = HTTP_404_NOT_FOUND
    /\ Len(last.ids) = 1
    /\ Range(last.request_ids) \cap DOMAIN Alarms # {}

\* C4: no step takes a stored alarm from handled back to unhandled.
C4_HandledIsTerminal ==
    [][\A sn \in DOMAIN Alarms \cap DOMAIN Alarms' :
         Alarms[sn].is_handled => Alarms'[sn].is_handled]_vars

\* A handled alarm is about to be written again by another session's call.
C4_Witness ==
    \E s \in Sessions : \E sn \in DOMAIN txn[s].writes :
        /\ txn[s].table = "Alarms"
        /\ ~txn[s].aborted
        /\ Alarms[sn].is_handled
        /\ Alarms[sn].handled_by # Some(UserOf(s))

\* C5, as claimed: once an alarm is handled, no step writes its handled_by,
\* handled_at or handle_reason again.
C5_AsClaimed ==
    [][\A sn \in DOMAIN Alarms \cap DOMAIN Alarms' :
         Alarms[sn].is_handled
         => /\ Alarms'[sn].handled_by = Alarms[sn].handled_by
            /\ Alarms'[sn].handled_at = Alarms[sn].handled_at
            /\ Alarms'[sn].handle_reason = Alarms[sn].handle_reason]_vars

\* C6, as claimed: a bulk call that returns a result has made durable the
\* update of exactly the requested ids it does not list as failed.
C6_AsClaimed ==
    (last # NoLast /\ last.status = HTTP_200_OK)
    => last.persisted = Range(last.request_ids) \ Range(last.failed_ids)

\* The ids of an ended call whose UPDATE ended in one of the given ways.
IdsWithOutcome(l, outcomes) ==
    {l.request_ids[i] : i \in {j \in 1..Len(l.outcome) : l.outcome[j] \in outcomes}}

\* C7: in the result of a bulk call the two counts add up to the number of
\* requested ids, failed_count is the length of failed_ids, failed_ids holds
\* exactly the ids whose UPDATE affected no row or raised, and no id is both
\* counted as applied and listed as failed.
C7_ResultAccounting ==
    (last # NoLast /\ last.status = HTTP_200_OK)
    => /\ last.count + last.failed_count = Len(last.request_ids)
       /\ last.failed_count = Len(last.failed_ids)
       /\ DuplicateFree(last.failed_ids)
       /\ Range(last.failed_ids) = IdsWithOutcome(last, {"no row", "raised"})
       /\ last.count = Cardinality(IdsWithOutcome(last, {"applied"}))
       /\ IdsWithOutcome(last, {"applied"}) \cap Range(last.failed_ids) = {}

\* A result that reports an applied id and a failed id.
C7_Witness ==
    /\ last # NoLast
    /\ last.status = HTTP_200_OK
    /\ last.count > 0
    /\ last.failed_count > 0

\* C8, as claimed: a bulk request whose id list holds a duplicate is rejected by
\* request validation, before any statement is executed.
C8_AsClaimed ==
    (last # NoLast /\ ~DuplicateFree(last.request_ids))
    => /\ last.status = HTTP_422_UNPROCESSABLE_ENTITY
       /\ last.statements = 0

ListOps == {"list_alarms", "list_routes", "list_tags", "list_accounts",
            "list_organizations"}

\* The ways the list request of the response in `last` can end when it is sent
\* again, on the data as they are, for another page.
EndsFor(l, page, page_size) ==
    CASE l.op = "list_alarms" -> list_alarms_ends(l.filter, page, page_size)
      [] l.op = "list_routes" -> list_routes_ends(l.filter, page, page_size)
      [] l.op = "list_tags" -> list_tags_ends(l.filter, page, page_size)
      [] l.op = "list_accounts" -> list_accounts_ends(l.filter, page, page_size)
      [] l.op = "list_organizations" -> list_organizations_ends(page, page_size)

\* C10: the total count a list request returns is the total count the same
\* request (same endpoint, same filter, same data) returns for every other
\* valid page and page size.
C10_TotalIndependentOfPage ==
    (last # NoLast /\ last.op \in ListOps /\ last.status = HTTP_200_OK)
    => \A page \in PageInputs, page_size \in PageSizeInputs :
         \A r \in EndsFor(last, page, page_size) :
            r.status = HTTP_200_OK => r.total_count = last.total_count

\* The second page, of size one, of the two tags that match was listed: the
\* total is two, not the length of the page.
C10_Witness ==
    /\ last # NoLast
    /\ last.op = "list_tags"
    /\ last.status = HTTP_200_OK
    /\ last.page = 2
    /\ last.page_size = 1
    /\ Len(last.rows) = 1
    /\ last.total_count = 2

\* The response in `last` answers a list request.
IsListed == last # NoLast /\ last.op \in ListOps

\* The request was not refused for its parameters or its filter.
ValidRequest(l) ==
    EndsFor(l, l.page, l.page_size)
      \cap {Failed(HTTP_422_UNPROCESSABLE_ENTITY, "validation error"),
            Failed(HTTP_500_INTERNAL_SERVER_ERROR, "Internal Server Error")} = {}

\* The number of rows the row query of the request selects before LIMIT and
\* OFFSET.
Matching(l) ==
    CASE l.op = "list_alarms" -> Cardinality(AlarmJoin(l.filter))
      [] l.op = "list_routes" -> Cardinality(RouteJoin(l.filter))
      [] l.op = "list_tags" ->
            Cardinality(TagJoin([l.filter EXCEPT !.model = validate_model(@)]))
      [] l.op = "list_accounts" -> Cardinality(AccountRows(l.filter))
      [] l.op = "list_organizations" -> Cardinality(DOMAIN Organizations)

\* The endpoints whose row query names a table "to".
AliasedOps == {"list_alarms", "list_routes"}

\* The response is an empty page with the total of the first page.
EmptyPageSameTotal(l) ==
    /\ l.status = HTTP_200_OK
    /\ l.rows = <<>>
    /\ \A r \in EndsFor(l, 1, l.page_size) :
          r.status = HTTP_200_OK => r.total_count = l.total_count

\* C11, as claimed: a valid list request for a page whose offset is at or beyond
\* the number of matching rows is answered, without an error, by an empty item
\* list and the total count of page 1.
C11_AsClaimed ==
    (/\ IsListed
     /\ ValidRequest(last)
     /\ Offset(last.page, last.page_size) >= Matching(last))
    => EmptyPageSameTotal(last)

\* C11, where the row query runs: the same for tags, accounts and
\* organizations, and for alarms and routes when the response is not the 500
\* of the service function.
C11_WhereTheRowQueryRuns ==
    (/\ IsListed
     /\ ValidRequest(last)
     /\ Offset(last.page, last.page_size) >= Matching(last)
     /\ last.op \in AliasedOps => last.status = HTTP_200_OK)
    => EmptyPageSameTotal(last)

\* A page beyond two accounts that match was listed.
C11_Witness ==
    /\ IsListed
    /\ last.op = "list_accounts"
    /\ last.status = HTTP_200_OK
    /\ last.total_count = 2
    /\ last.page = 2
    /\ last.page_size = 2
    /\ last.rows = <<>>

C12_SameFromClause ==
    (IsListed /\ last.status = HTTP_200_OK /\ last.op \notin AliasedOps)
    => last.total_count = Matching(last)

\* The whole result of the request is on the page of the response.
Covers(l) == l.page = 1 /\ Matching(l) <= l.page_size

\* The names of the tracking objects an imei matches: those whose mac is the
\* imei of a tag with that imei.
ObjectNamesOf(imei) ==
    {Tracking_Objects[sn].name :
        sn \in {o \in DOMAIN Tracking_Objects :
                  /\ Tracking_Objects[o].mac = imei
                  /\ \E t \in DOMAIN Tags : Tags[t].imei = imei}}

\* The tracking_object a joined item is to show for an imei.
DisplayedFor(imei) ==
    IF ObjectNamesOf(imei) = {} THEN {Unknown} ELSE ObjectNamesOf(imei)

\* Every alarm that matches the filter is among the rows, with the name of a
\* tracking object its imei matches, or "Unknown" where it matches none.
EveryAlarmListed(l) ==
    /\ l.status = HTTP_200_OK
    /\ \A sn \in DOMAIN Alarms :
          AlarmMatches(Alarms[sn], l.filter)
          => \E i \in 1..Len(l.rows) :
                /\ l.rows[i].sn = sn
                /\ l.rows[i].tracking_object \in DisplayedFor(Alarms[sn].imei)

\* C13, as claimed: a valid request to list the alarms of an organization, for a
\* page that holds the whole result, returns every alarm of the organization
\* that matches the filter, with tracking_object "Unknown" where its imei
\* matches no tracking object, else with the name of that object.
C13_AsClaimed ==
    (/\ IsListed
     /\ last.op = "list_alarms"
     /\ ValidRequest(last)
     /\ Covers(last))
    => EveryAlarmListed(last)

\* C13, where the row query runs: the same of the responses that are not the
\* 500 of the service function.
C13_WhereTheRowQueryRuns ==
    (/\ IsListed
     /\ last.op = "list_alarms"
     /\ last.status = HTTP_200_OK
     /\ Covers(last))
    => EveryAlarmListed(last)

\* Two alarms were listed whose imei matches a tag and no tracking object.
C13_Witness ==
    /\ IsListed
    /\ last.op = "list_alarms"
    /\ last.status = HTTP_200_OK
    /\ Len(last.rows) = 2
    /\ DOMAIN Tags # {}
    /\ \A i \in 1..2 : last.rows[i].tracking_object = Unknown

\* The tags a route entry's terminal_id matches.
TagsOfRoute(r) == {t \in DOMAIN Tags : Tags[t].imei = Route_List[r].terminal_id}

\* Some row of the response shows the route entry r with these display fields.
RouteShown(l, r, terminal_ids, tracking_objects) ==
    \E i \in 1..Len(l.rows) :
        /\ l.rows[i].tracking_time = Route_List[r].tracking_time
        /\ l.rows[i].terminal_id \in terminal_ids
        /\ l.rows[i].tracking_object \in tracking_objects

\* C14, as claimed: where the route list is returned, for a page that holds the
\* whole result, a Route_List entry in the time range whose terminal_id matches
\* no tag is among the rows, with terminal_id and tracking_object "Unknown".
C14_AsClaimed ==
    (/\ IsListed
     /\ last.op = "list_routes"
     /\ last.status = HTTP_200_OK
     /\ Covers(last))
    => \A r \in DOMAIN Route_List :
          (RouteMatches(Route_List[r], last.filter) /\ TagsOfRoute(r) = {})
          => RouteShown(last, r, {Unknown}, {Unknown})

\* C14, second half: where the route list is returned, an entry in the time
\* range whose tag is of the organization asked for is among the rows, with
\* tracking_object "Unknown" where the tag matches no tracking object.
C14_TagWithoutObject ==
    (/\ IsListed
     /\ last.op = "list_routes"
     /\ last.status = HTTP_200_OK
     /\ Covers(last))
    => \A r \in DOMAIN Route_List :
          (/\ RouteMatches(Route_List[r], last.filter)
           /\ \E t \in TagsOfRoute(r), o \in DOMAIN Organizations :
                 /\ Tags[t].organization = last.filter.organization
                 /\ Organizations[o].organization_name = last.filter.organization)
          => RouteShown(last, r, {Route_List[r].terminal_id},
                        DisplayedFor(Route_List[r].terminal_id))

\* A route entry whose tag matches no tracking object was listed.
C14_Witness ==
    /\ IsListed
    /\ last.op = "list_routes"
    /\ last.status = HTTP_200_OK
    /\ Tracking_Objects = <<>>
    /\ Len(last.rows) = 1
    /\ last.rows[1].terminal_id = Imei1
    /\ last.rows[1].tracking_object = Unknown

\* ---- properties of get-by-id ----
GetOps == {"get_alarm", "get_route"}

\* The response in `last` answers a get-by-id request with an item.
IsGot == last # NoLast /\ last.op \in GetOps /\ last.status = HTTP_200_OK

\* The organizations of the entity a get-by-id request names: the alarm's, or
\* those of the tags the route entry's terminal_id matches.
OrganizationsOf(g) ==
    IF g.op = "get_alarm" THEN {Alarms[g.id].organization}
    ELSE {Tags[t].organization : t \in TagsOfRoute(g.id)}

\* The ways the list request for the whole of an organization's entities, on
\* one page, can end, in a time range around the entity's time.
ListOfOrganization(g, organization) ==
    IF g.op = "get_alarm"
    THEN list_alarms_ends(AlarmFilter(organization, None, None, None),
                          1, PageSizeLimit)
    ELSE list_routes_ends(
             RouteFilter(organization, Some(Route_List[g.id].tracking_time - 1),
                         Some(Route_List[g.id].tracking_time + 1)),
             1, PageSizeLimit)

\* A row of a list shows the same entity as the item, with the same joined
\* display fields.
SameDisplay(op, row, item) ==
    IF op = "get_alarm"
    THEN /\ row.sn = item.sn
         /\ row.imei = item.imei
         /\ row.tracking_object = item.tracking_object
    ELSE /\ row.tracking_time = item.tracking_time
         /\ row.terminal_id = item.terminal_id
         /\ row.tracking_object = item.tracking_object

\* Every list of the entity's organization that is returned holds a row that
\* shows the item as get-by-id returned it.
ListedAsGot(g) ==
    \A organization \in OrganizationsOf(g) :
    \A l \in ListOfOrganization(g, organization) :
        l.status = HTTP_200_OK
        => \E i \in 1..Len(l.rows) : SameDisplay(g.op, l.rows[i], g.item[1])

C15_Alarms == (IsGot /\ last.op = "get_alarm") => ListedAsGot(last)

\* An alarm whose tag matches no tracking object was fetched by id.
C15_Witness ==
    /\ IsGot
    /\ last.op = "get_alarm"
    /\ last.item[1].imei = Imei1
    /\ last.item[1].tracking_object = Unknown

\* ---- properties of create, get, update and delete ----
CreateOps == {"create_organization", "create_account", "create_tracking_object"}

\* The response in `last` answers a create request that created a row.
IsCreated ==
    last # NoLast /\ last.op \in CreateOps /\ last.status = HTTP_201_CREATED

\* The key of the entity of a request.
KeyOf(op) == IF op = "create_organization" THEN "id" ELSE "sn"

\* What get-by-id of the entity of a request returns for an id, now.
GetById(op, id) ==
    CASE op = "create_organization" -> get_organization_by_id(id)
      [] op = "create_account" -> get_account_by_id(id)
      [] op = "create_tracking_object" -> get_tracking_object_by_id(id)

\* C16: once a create request has created a row, get-by-id of the id it was
\* given returns the item the create returned: its fields are those of the
\* validated body and its key is that id.
C16_RoundTrip ==
    IsCreated
    => LET id == last.item[1][KeyOf(last.op)]
           got == GetById(last.op, id)
       IN /\ got # None
          /\ got = last.item
          /\ got[1][KeyOf(last.op)] = id
          /\ \A k \in DOMAIN last.body : got[1][k] = last.body[k]

\* The second organization was created from a padded name, title and product
\* type.
C16_Witness ==
    /\ IsCreated
    /\ last.op = "create_organization"
    /\ last.item[1].id = 2
    /\ last.item[1].organization_name = OrganizationName1
    /\ last.item[1].product_type = Some(<<"p">>)

\* C17, as claimed: no two organizations have the same organization_name.
C17_AsClaimed ==
    \A i, j \in DOMAIN Organizations :
        i # j => Organizations[i].organization_name # Organizations[j].organization_name

\* C18, as claimed: no two accounts have the same organization and the same
\* account name.
C18_AsClaimed ==
    \A i, j \in DOMAIN Accounts :
        i # j => \/ Accounts[i].organization # Accounts[j].organization
                 \/ Accounts[i].account # Accounts[j].account

\* ---- properties of get_conn ----
\* C19, as claimed: the connection of an operation is released on the way out
\* of the operation and exactly once: not while the operation runs, once when
\* it has ended (by return, HTTPException or another exception), and with no
\* operation in progress no connection is checked out of the pool or open.
C19_AsClaimed ==
    /\ \A s \in Sessions :
          call[s].op = "service_operation" => connections.releases[s] = 0
    /\ (last # NoLast /\ last.op = "service_operation")
       => connections.releases[last.session[1]] = 1
    /\ (Quiet /\ \A s \in Sessions : call[s].op = "none")
       => connections.used = {} /\ connections.open = {}

\* The connection of an operation in progress is in the pool's idle list.
C19_InUseWhileIdle ==
    \E s \in Sessions :
        /\ call[s].op = "service_operation"
        /\ connections.acquired[s] # None
        /\ connections.acquired[s][1] \in connections.idle

\* Two operations in progress use one connection.
C19_Shared ==
    \E s, t \in Sessions :
        /\ s # t
        /\ call[s].op = "service_operation"
        /\ call[t].op = "service_operation"
        /\ connections.acquired[s] = connections.acquired[t]

\* ---- properties of the mutations that end in an error ----
MutatingOps ==
    {"create_organization", "update_organization", "create_account",
     "update_account", "delete_account", "create_tracking_object",
     "handle_alarms", "transfer_tags"}

\* The committed rows of every table.
storage ==
    <<Alarms, Tags, Organizations, Accounts, Route_List, Tracking_Objects>>

NoOptionalField(l) ==
    CASE l.op = "list_alarms" ->
            l.filter.warn_type = None /\ l.filter.start_time = None
            /\ l.filter.end_time = None
      [] l.op = "list_accounts" -> l.filter.account_name = None
      [] l.op = "list_tags" -> l.filter.organization = None /\ l.filter.model = None
      [] OTHER -> FALSE

\* The stored rows in the scope of the request: those of the organization it
\* names, every tag where it names none.
RowsInScope(l) ==
    CASE l.op = "list_alarms" ->
            {sn \in DOMAIN Alarms : Alarms[sn].organization = l.filter.organization}
      [] l.op = "list_accounts" ->
            {sn \in DOMAIN Accounts :
                Accounts[sn].organization = l.filter.organization}
      [] l.op = "list_tags" -> DOMAIN Tags

\* C21, as claimed: a list call of alarms, accounts or tags that sets no
\* optional filter field returns the plain count of the stored rows in scope
\* as its total count.
C21_AsClaimed ==
    (IsListed /\ last.status = HTTP_200_OK /\ NoOptionalField(last))
    => last.total_count = Cardinality(RowsInScope(last))

\* C21 for alarms and accounts, whose count query reads one table.
C21_AlarmsAndAccounts ==
    (/\ IsListed
     /\ last.status = HTTP_200_OK
     /\ NoOptionalField(last)
     /\ last.op # "list_tags")
    => last.total_count = Cardinality(RowsInScope(last))

\* The accounts of an organization were listed without a filter, beside an
\* account of another organization.
C21_Witness ==
    /\ IsListed
    /\ last.op = "list_accounts"
    /\ last.status = HTTP_200_OK
    /\ NoOptionalField(last)
    /\ last.total_count = 1
    /\ Cardinality(DOMAIN Accounts) = 2

\* ---- properties of the updates ----
UpdateOps == {"update_organization", "update_account", "update_tracking_object"}

\* The table an update writes.
TableOf(op) ==
    CASE op = "update_organization" -> Organizations
      [] op = "update_account" -> Accounts
      [] op = "update_tracking_object" -> Tracking_Objects

\* The body of the request supplies no field, or some.
SuppliesNothing(body) ==
    \A k \in DOMAIN body : body[k] = None

\* The step ends an update whose body validation passed.
UpdateEnds ==
    /\ last' # NoLast
    /\ last'.op \in UpdateOps
    /\ last'.status # HTTP_422_UNPROCESSABLE_ENTITY

\* The step ends an update that supplies fields, of an id its table has not,
\* with no statement of the call raising.
UpdateOfMissingEnds ==
    /\ UpdateEnds
    /\ ~SuppliesNothing(last'.body)
    /\ last'.id[1] \notin DOMAIN TableOf(last'.op)
    /\ last'.status # HTTP_500_INTERNAL_SERVER_ERROR

\* The update without fields is rejected with 400 and writes nothing.
NoFieldsRejected ==
    (UpdateEnds /\ SuppliesNothing(last'.body))
    => /\ last'.status = HTTP_400_BAD_REQUEST
       /\ last'.detail = "No fields to update"
       /\ UNCHANGED storage

\* C22, as claimed: an update without fields is rejected with 400 and writes
\* nothing, whether the id exists or not; an update with fields of an id that
\* does not exist ends 404 without an item and changes no row.
C22_AsClaimed ==
    [][/\ NoFieldsRejected
       /\ UpdateOfMissingEnds
          => /\ last'.status = HTTP_404_NOT_FOUND
             /\ last'.item = None
             /\ UNCHANGED storage]_vars

\* The update names an organization name that another row has.
NamesTakenName ==
    /\ last'.op = "update_organization"
    /\ last'.body.organization_name # None
    /\ OrganizationNameTaken(last'.body.organization_name[1], last'.id[1])

\* C22, amended: the same, except that update_organization of an id that does
\* not exist, naming an organization_name that an existing organization has
\* when the call looks for it, is rejected with 400 "Organization name
\* already exists"; it changes no row either.
C22_MissingIdOrTakenName ==
    [][/\ NoFieldsRejected
       /\ UpdateOfMissingEnds
          => /\ UNCHANGED storage
             /\ last'.item = None
             /\ IF last'.status = HTTP_400_BAD_REQUEST
                   THEN /\ last'.detail = "Organization name already exists"
                        /\ NamesTakenName
                ELSE last'.status = HTTP_404_NOT_FOUND]_vars

\* An update without fields of an id that exists was rejected.
C22_Witness ==
    /\ last # NoLast
    /\ last.op \in UpdateOps
    /\ SuppliesNothing(last.body)
    /\ last.status = HTTP_400_BAD_REQUEST
    /\ last.id[1] \in DOMAIN TableOf(last.op)

\* An update with fields of a tracking object that does not exist ended 404
\* beside a stored one.
C22_MissingEnded ==
    /\ last # NoLast
    /\ last.op = "update_tracking_object"
    /\ ~SuppliesNothing(last.body)
    /\ last.status = HTTP_404_NOT_FOUND
    /\ DOMAIN Tracking_Objects = {1}

\* ---- properties of ownership ----
\* Some organization has the name.
OrganizationNamed(name) ==
    \E id \in DOMAIN Organizations : Organizations[id].organization_name = name

\* C23, as claimed: the organization of every tag, account and tracking
\* object is the organization_name of an existing organization.
C23_AsClaimed ==
    /\ \A sn \in DOMAIN Tags : OrganizationNamed(Tags[sn].organization)
    /\ \A sn \in DOMAIN Accounts : OrganizationNamed(Accounts[sn].organization)
    /\ \A sn \in DOMAIN Tracking_Objects :
          OrganizationNamed(Tracking_Objects[sn].organization)

\* An account of an organization that was created before it, and renamed
\* after it.
C23_Renamed ==
    /\ DOMAIN Accounts # {}
    /\ DOMAIN Organizations = {1}
    /\ Organizations[1].organization_name = OrganizationName2
    /\ \A sn \in DOMAIN Accounts : Accounts[sn].organization = OrganizationName1
    /\ last # NoLast
    /\ last.op = "update_organization"
    /\ last.status = HTTP_200_OK

\* ---- properties of the commit of a bulk call ----
BulkOps == {"handle_alarms", "transfer_tags"}

\* The rows of a table that a step has changed for every session to see.
RowsChanged(table, table_after) ==
    {sn \in DOMAIN table \cap DOMAIN table_after : table_after[sn] # table[sn]}

\* The step is the commit of the call of session s, after the UPDATE of
\* its last id was issued, and ends the call.
CommitsOnce(s, op) ==
    /\ call[s].op = op
    /\ call[s].pos > Len(call[s].ids)
    /\ call'[s].op = "none"
    /\ last' # NoLast
    /\ last'.session = Some(s)
    /\ last'.status = HTTP_200_OK

\* C24, as claimed: the rows a bulk call updates change for the other sessions
\* in one step only, the commit that ends the call, which comes after the
\* UPDATE of the last requested id was issued; a call that is rejected changes
\* no row.
C24_AsClaimed ==
    [][/\ RowsChanged(Alarms, Alarms') # {}
          => \E s \in Sessions :
                /\ CommitsOnce(s, "handle_alarms")
                /\ RowsChanged(Alarms, Alarms') \subseteq DOMAIN txn[s].writes
       /\ RowsChanged(Tags, Tags') # {}
          => \E s \in Sessions :
                /\ CommitsOnce(s, "transfer_tags")
                /\ RowsChanged(Tags, Tags') \subseteq DOMAIN txn[s].writes
       /\ (/\ last' # NoLast
           /\ last'.op \in BulkOps
           /\ last'.status # HTTP_200_OK)
          => /\ RowsChanged(Alarms, Alarms') = {}
             /\ RowsChanged(Tags, Tags') = {}]_vars

\* The first UPDATE of a handle_alarms call of two ids is committed while the
\* second has not been issued.
C24_PartlyVisible ==
    \E s \in Sessions :
        /\ call[s].op = "handle_alarms"
        /\ Len(call[s].ids) = 2
        /\ call[s].pos = 2
        /\ \A i \in 1..2 : call[s].ids[i] \in DOMAIN Alarms
        /\ Alarms[call[s].ids[1]].is_handled
        /\ ~Alarms[call[s].ids[2]].is_handled

\* The handle_alarms call of session s ends with conn.commit() in this step.
HandleCommits(s) ==
    /\ call[s].op = "handle_alarms"
    /\ call'[s].op = "none"
    /\ last' # NoLast
    /\ last'.status = HTTP_200_OK

\* C25: when a handle_alarms call commits, every alarm whose UPDATE it applied
\* and made durable is counted as handled by it and is not among its failed
\* ids, whether or not another call that passed the same not-handled check has
\* handled the alarm in between; the stored handled_by, handled_at and
\* handle_reason are then those of the call that commits, the later update.
C25_LaterUpdateWins ==
    [][\A s \in Sessions :
         HandleCommits(s)
         => \A sn \in Persisted(txn[s]) \cap DOMAIN Alarms :
               /\ sn \notin Range(last'.failed_ids)
               /\ sn \in IdsWithOutcome(last', {"applied"})
               /\ last'.count >= 1
               /\ Alarms'[sn].is_handled
               /\ Alarms'[sn].handled_by = Some(UserOf(s))
               /\ Alarms'[sn].handle_reason = call[s].reason
               /\ Alarms'[sn].handled_at = txn[s].writes[sn].handled_at
               /\ Alarms'[sn].handled_at # None]_vars

\* Both calls passed the not-handled check for the same alarm: the first has
\* committed its update, the second has applied its own and is about to commit.
C25_Witness ==
    \E s \in Sessions : \E sn \in Persisted(txn[s]) \cap DOMAIN Alarms :
        /\ call[s].op = "handle_alarms"
        /\ call[s].pos > Len(call[s].ids)
        /\ txn[s].table = "Alarms"
        /\ Alarms[sn].is_handled
        /\ \E t \in Sessions \ {s} : Alarms[sn].handled_by = Some(UserOf(t))
        /\ txn[s].writes[sn].handled_by = Some(UserOf(s))

\* C26, as claimed: the total count of a list response is never smaller than
\* the number of rows the response holds.
C26_AsClaimed ==
    (last # NoLast /\ last.op \in {"list_alarms", "list_accounts"}
                   /\ last.status = HTTP_200_OK)
    => last.total_count >= Len(last.rows)

\* The other direction is reachable as well: a row deleted between the two
\* queries leaves a total above the rows of a page that is not full.
C26_Fewer ==
    /\ last # NoLast
    /\ last.op \in {"list_alarms", "list_accounts"}
    /\ last.status = HTTP_200_OK
    /\ last.page = 1
    /\ Len(last.rows) < last.page_size
    /\ Len(last.rows) < last.total_count

\* An account list whose rows outnumber its total: create_account committed
\* between the two queries.
C26_MoreAccounts ==
    /\ last # NoLast
    /\ last.op = "list_accounts"
    /\ last.status = HTTP_200_OK
    /\ Len(last.rows) > last.total_count

\* A bulk call was rejected by one of its checks: nothing was written, the
\* tables are as the checks read them.
BulkRejected(op) ==
    /\ last # NoLast
    /\ last.op = op
    /\ last.status \in {HTTP_400_BAD_REQUEST, HTTP_404_NOT_FOUND}

\* The requested ids that name no row of the table, in request order.
MissingIds(table) == NotIn(last.request_ids, DOMAIN table)

\* The alarms a rejected handle_alarms call found are of several organizations
\* or one of them is handled.
AlarmInvariantViolated ==
    LET existing_alarms == Range(last.request_ids) \cap DOMAIN Alarms
    IN \/ MixedOrganizations({Alarms[sn].organization : sn \in existing_alarms})
       \/ AlreadyHandled(existing_alarms) # {}

\* The rejection is the existence check's: 404 naming the missing ids.
RejectedForMissing(detail, table) ==
    /\ last.status = HTTP_404_NOT_FOUND
    /\ last.detail = detail
    /\ last.ids = MissingIds(table)

\* C27, as claimed: a bulk call with a missing id and a violated invariant
\* fails with the existence check's NotFound naming the missing ids, in
\* handle_alarms and in transfer_tags.
C27_AsClaimed ==
    /\ (BulkRejected("handle_alarms") /\ MissingIds(Alarms) # <<>>
          /\ AlarmInvariantViolated)
       => RejectedForMissing("Alarms not found", Alarms)
    /\ (BulkRejected("transfer_tags") /\ MissingIds(Tags) # <<>>
          /\ last.new_organization_id[1] \notin DOMAIN Organizations)
       => RejectedForMissing("Tags not found", Tags)

\* C27, amended: handle_alarms runs its existence check first: a missing id
\* gives 404 "Alarms not found" naming the missing ids whatever else is wrong
\* with the batch. transfer_tags looks up the target organization first: when
\* it does not exist the call fails with 404 "Target organization not found"
\* and names no id, whether or not a tag is missing; the missing tags are named
\* only when the target organization exists (the same 404 "Tags not found"
\* answers a list that repeats an id, then naming only the ids that are missing).
C27_TargetOrganizationFirst ==
    /\ (BulkRejected("handle_alarms") /\ MissingIds(Alarms) # <<>>)
       => RejectedForMissing("Alarms not found", Alarms)
    /\ BulkRejected("transfer_tags")
       => IF last.new_organization_id[1] \notin DOMAIN Organizations
             THEN /\ last.status = HTTP_404_NOT_FOUND
                  /\ last.detail = "Target organization not found"
                  /\ last.ids = <<>>
                  /\ last.statements = 1
          ELSE /\ MissingIds(Tags) # <<>> \/ ~DuplicateFree(last.request_ids)
               /\ RejectedForMissing("Tags not found", Tags)
               /\ last.statements = 2

\* transfer_tags was rejected with a missing tag and a missing target
\* organization.
C27_Witness ==
    /\ BulkRejected("transfer_tags")
    /\ MissingIds(Tags) # <<>>
    /\ last.new_organization_id[1] \notin DOMAIN Organizations

\* handle_alarms was rejected with a missing alarm beside a handled one.
C27_AlarmMissingBesideHandled ==
    /\ BulkRejected("handle_alarms")
    /\ MissingIds(Alarms) # <<>>
    /\ AlarmInvariantViolated

\* ceil(total_count / page_size)
PageCount(total_count, page_size) == (total_count + page_size - 1) \div page_size

\* The pages a caller can receive when it asks for the pages 1..n one after the
\* other while the data stay as they are: one answer of each request.
PageChoices(RowsOfPage(_), n) ==
    {c \in [1..n -> UNION {RowsOfPage(p) : p \in 1..n}] :
        \A p \in 1..n : c[p] \in RowsOfPage(p)}

\* The row sequences of the answers that are lists.
ListsOf(results) == {r.rows : r \in {x \in results : x.status = HTTP_200_OK}}

\* The pages are pairwise disjoint and hold every matching row exactly once.
PagesStable(c, n, matching) ==
    /\ \A p, q \in 1..n : p < q => Range(c[p]) \cap Range(c[q]) = {}
    /\ \A p \in 1..n : DuplicateFree(c[p])
    /\ UNION {Range(c[p]) : p \in 1..n} = matching

AccountPagesStable(f, page_size) ==
    LET n == PageCount(AccountCount(f), page_size)
    IN \A c \in PageChoices(
              LAMBDA p : ListsOf(get_accounts_by_organization(f, p, page_size)), n) :
          PagesStable(c, n, {AccountItem(sn) : sn \in AccountRows(f)})

OrganizationPagesStable(page_size) ==
    LET n == PageCount(OrganizationCount, page_size)
    IN \A c \in PageChoices(
              LAMBDA p : ListsOf(get_organizations_with_pagination(p, page_size)), n) :
          PagesStable(c, n, {OrganizationItem(id) : id \in DOMAIN Organizations})

AlarmPagesStable(f, page_size) ==
    LET n == PageCount(AlarmCount(f), page_size)
    IN \A c \in PageChoices(
              LAMBDA p : ListsOf(get_alarms_with_filters(f, p, page_size)), n) :
          PagesStable(c, n, {AlarmItem(j) : j \in AlarmJoin(f)})

\* C28, as claimed: over unchanged data the pages 1..ceil(total/page_size) of a
\* list are pairwise disjoint and together hold every matching row exactly
\* once, also when rows have the same value of the ordering key.
C28_AsClaimed ==
    \A page_size \in 1..MaxPageSize :
        /\ \A f \in AccountFilters : AccountPagesStable(f, page_size)
        /\ OrganizationPagesStable(page_size)
        /\ \A f \in AlarmFilters : AlarmPagesStable(f, page_size)

\* The accounts of one organization have different names less often than not:
\* where the matching accounts do, their pages are stable.
C28_DistinctNames ==
    \A page_size \in 1..MaxPageSize : \A f \in AccountFilters :
        (\A a, b \in AccountRows(f) :
            a # b => Accounts[a].account # Accounts[b].account)
        => AccountPagesStable(f, page_size)

\* Two accounts of one organization have the same name, and a caller receives
\* one of them on page 1 and on page 2.
C28_SameRowTwice ==
    \E f \in AccountFilters :
        \E r1 \in ListsOf(get_accounts_by_organization(f, 1, 1)),
           r2 \in ListsOf(get_accounts_by_organization(f, 2, 1)) :
            /\ Len(r1) = 1
            /\ r1 = r2

\* ---- properties of the use of a pooled connection ----
\* C29, as claimed: while an operation that acquired a connection of the pool
\* by next(get_conn()) is inside its with-block, the connection is not in the
\* pool's idle list and no other operation in progress has it.
C29_AsClaimed ==
    connections.pooled
    => \A s \in Sessions :
          (call[s].op = "service_operation" /\ connections.acquired[s] # None)
          => /\ connections.acquired[s][1] \notin connections.idle
             /\ connections.acquired[s][1] \in connections.used
             /\ UsersOf(connections.acquired[s][1]) = {s}

\* Two operations in progress hold the pool's one connection, and the pool has
\* it in its idle list to hand it out again.
C29_HandedOutAgain ==
    /\ connections.pooled
    /\ \E conn \in connections.idle : Cardinality(UsersOf(conn)) = 2

C30_RowNumber ==
    /\ last # NoLast
    /\ last.op = "get_route"
    /\ last.status = HTTP_200_OK
    /\ last.id = 2
    /\ last.id \in DOMAIN Route_List
    /\ last.item # None
    /\ last.item[1].sn = 1
    /\ last.item[1].tracking_time = Route_List[2].tracking_time

====
